---- MODULE Spec2Model ----
(***************************************************************************)
(* Graph workflows of the langchain-lab examples.                           *)
(*                                                                         *)
(*  - SpecReview: the approve/reject/edit review graph and its driver      *)
(*    handle_interrupts (langgraph-essentials/5-human-in-the-loop.py).     *)
(*  - SpecEmail: the email triage graph, process_email_batch and           *)
(*    process_review_queue (langgraph-essentials/                          *)
(*    7-application-email-agent.py).                                       *)
(*  - SpecAgent: the tool-approval agent built with                        *)
(*    HumanInTheLoopMiddleware and its script (human_in_the_loop.py).      *)
(*  - SpecEmailBatch: the email app as main runs it, with the decisions    *)
(*    process_review_queue simulates.                                      *)
(*  - SpecFanOut: the fan-out / fan-in graph of 2-static-edges.py.         *)
(*  - SpecChat, SpecRecovery: the chat graph of 4-memory.py with its       *)
(*    in-memory checkpointer; SpecRecovery adds the end of the process     *)
(*    and the script started again.                                        *)
(*  - SpecSql: run_app of 8-application-sql-agent.py.                      *)
(*  - SpecSupervisor: the supervisor of supervisor_agent_langchain.py,     *)
(*    whose tool calls are sub-agents that may suspend.                    *)
(*  - SpecBot: the summarizing chat bot of advanced_chat_bot_1.py.         *)
(*  - SpecOverwrite: the scripts whose State has no reducer, the greeter   *)
(*    graph of 1-nodes.py or the review graph.                             *)
(*                                                                         *)
(* Each specification moves the variables of its own workflow and leaves   *)
(* the others at their idle values.                                        *)
(*                                                                         *)
(* A graph run is a sequence of super-steps.  A node that calls            *)
(* interrupt() without a resume value ends the invocation: the pending     *)
(* request is stored with the thread's checkpoint and returned under       *)
(* "__interrupt__".  invoke(Command(resume=v)) re-enters the interrupted   *)
(* node from its first line and interrupt() returns v.                     *)
(***************************************************************************)
EXTENDS Integers, Sequences, FiniteSets, TLC

VARIABLES
    rvValues,      \* review graph: channel values of thread "1" (State)
    rvNext,        \* review graph: node scheduled for the next super-step
    rvInterrupts,  \* review graph: pending interrupts of the checkpoint
    rvResume,      \* review graph: resume value of the running invocation
    rvResponse,    \* handle_interrupts: `response`
    rvPc,          \* handle_interrupts: position of the driver
    rvStep,        \* review graph: super-steps executed on the thread
    rvEntered,     \* times each node's first line (the print) has run
    rvSuspended,   \* times each node has raised an interrupt
    rvResumed,     \* times each node has been re-entered with a resume value
    rvTrace,       \* nodes executed on the thread, in order
    rvInputs,      \* handle_interrupts: the user inputs read so far
    emThreads,     \* email app: thread id -> latest checkpoint of the thread
    emThread,      \* email app: thread of the running invocation (0: none)
    emTasks,       \* email app: nodes of the current super-step not yet run
    emWrites,      \* email app: updates of the nodes already run in the step
    emRaised,      \* email app: interrupts raised in the current super-step
    emResume,      \* email app: resume value of the running invocation
    emResult,      \* drivers: `result` of the last app.invoke
    emPc,          \* main: position of process_email_batch / review_queue
    emIndex,       \* process_email_batch: index i of the loop (from 1)
    needs_approval,\* process_email_batch: results waiting for review
    emQueuePos,    \* process_review_queue: position in needs_approval
    emRuns,        \* thread id -> node -> times the node was entered
    emObserved,    \* thread id -> what write_response read from the state
    emDecisions,   \* thread id -> resume values supplied to the thread
    emBatch,       \* main: len(test_emails)
    emSimulated,   \* process_review_queue: the decision is the simulated one
    emLog,         \* email app: `memory`, thread id -> checkpoints in write order
    agMessages,    \* tool-approval agent: messages of the thread
    agNext,        \* tool-approval agent: node of the next super-step
    agInterrupts,  \* tool-approval agent: pending interrupts of the checkpoint
    agResume,      \* tool-approval agent: resume value of the invocation
    agResult,      \* driver: `result` of the last agent.invoke
    agPc,          \* driver: position in the script
    agStep,        \* tool-approval agent: super-steps executed
    agExecuted,    \* the send_email calls executed, in order
    agSuspended,   \* times the agent run was suspended
    agDecisions,   \* driver: the decisions entered so far
    agTrace,       \* nodes executed on the thread, in order
    foValues,      \* static-edges graph: channel values of the run (State)
    foTasks,       \* static-edges graph: nodes of the super-step not yet run
    foWrites,      \* static-edges graph: updates of the nodes already run
    foOrder,       \* static-edges graph: the nodes run, in the order they finished
    foReceived,    \* static-edges graph: node -> state['messages'] it printed
    foResponse,    \* script: `response` of graph.invoke
    foPc,          \* script: position
    ckLog,         \* chat graph: `memory`, thread id -> checkpoints in write order
    ckThread,      \* chat graph: thread id of the running invocation
    ckTasks,       \* chat graph: nodes of the super-step not yet run
    ckWrites,      \* chat graph: updates of the nodes already run
    ckResult,      \* run_turn: `result` of graph.invoke
    ckPc,          \* script: position
    ckInputs,      \* thread id -> the user messages of the turns run so far
    ckTurns,       \* thread id -> turns completed since the script started
    ckRuns,        \* <<thread id, turn>> -> times agent_node ran for the turn
    ckSaved,       \* <<thread id, turn>> of every turn whose result was saved
    ckCrashes,     \* how each run of the script ended early, oldest first
    sqLog,         \* SQL agent: `memory`, thread id -> checkpoints in write order
    sqNode,        \* SQL agent: node of the current super-step ("": none)
    sqPc,          \* run_app: position
    sqAsked,       \* run_app: questions entered so far
    sqToolSteps,   \* SQL agent: tools steps of the running invocation
    sqErrors,      \* run_app: the invocations that raised, oldest first
    sqSent,        \* agent_node: the list last passed to model_with_tools.invoke
    suMessages,    \* supervisor: messages of the thread's checkpoint
    suCalls,       \* supervisor: tool calls of the last model response
    suWrites,      \* supervisor: results of the tool calls completed in the wave
    suRan,         \* supervisor: tool calls run in this invocation
    suRaised,      \* supervisor: interrupts raised in this invocation
    suPending,     \* supervisor: interrupts stored with the checkpoint
    suResume,      \* supervisor: resume_dict of the running invocation
    suResult,      \* supervisor: what supervisor_agent.invoke returned
    suPc,          \* supervisor: position of the script
    suInvocations, \* supervisor: calls of supervisor_agent.invoke so far
    suRounds,      \* supervisor: model responses so far
    sbMessages,    \* chat bot: `messages` of thread "1"
    sbSummary,     \* chat bot: `summary` of thread "1"
    sbPc,          \* chat bot: position of run_chatbot and of the graph run
    sbTurns,       \* chat bot: inputs entered so far
    sbAppended,    \* chat bot: every message appended so far, in order
    sbRemoved,     \* chat bot: ids of the messages removed so far
    sbTrace,       \* chat bot: nodes run in the last invocation, in order
    grInitial,     \* greeter script: `initial_state`
    grValues,      \* greeter graph: channel values (State)
    grResponse,    \* greeter script: `response`
    grPc           \* greeter script: position

reviewVars == <<rvValues, rvNext, rvInterrupts, rvResume, rvResponse, rvPc,
                rvStep, rvEntered, rvSuspended, rvResumed, rvTrace, rvInputs>>

emailVars == <<emThreads, emThread, emTasks, emWrites, emRaised, emResume,
               emResult, emPc, emIndex, needs_approval, emQueuePos, emRuns,
               emObserved, emDecisions, emBatch, emSimulated,
               emLog>>

\* what no step of the email app changes
emConfig == <<emBatch, emSimulated>>

agentVars == <<agMessages, agNext, agInterrupts, agResume, agResult, agPc,
               agStep, agExecuted, agSuspended, agDecisions, agTrace>>

fanVars == <<foValues, foTasks, foWrites, foOrder, foReceived, foResponse,
             foPc>>

\* the graphs of the langgraph-essentials scripts without a human in the loop
chatVars == <<ckLog, ckThread, ckTasks, ckWrites, ckResult, ckPc, ckInputs,
              ckTurns, ckRuns, ckSaved, ckCrashes>>

sqlVars == <<sqLog, sqNode, sqPc, sqAsked, sqToolSteps, sqErrors, sqSent>>

supVars == <<suMessages, suCalls, suWrites, suRan, suRaised, suPending,
             suResume, suResult, suPc, suInvocations, suRounds>>

botVars == <<sbMessages, sbSummary, sbPc, sbTurns, sbAppended, sbRemoved,
             sbTrace>>

greeterVars == <<grInitial, grValues, grResponse, grPc>>

essentialsVars == <<fanVars, chatVars, sqlVars, supVars, botVars,
                    greeterVars>>

vars == <<reviewVars, emailVars, agentVars, essentialsVars>>

-----------------------------------------------------------------------------
(* Bounds *)

\* resumes one driver run may perform
MaxResumes == 4

\* emails of one batch (get_test_emails lists seven) when a reviewer decides
\* the queued items; every email multiplies the reachable states by about
\* seventy
NumEmails == 1

\* emails of one batch when the queued items get the simulated decision
BatchEmails == 2

\* decisions the user of the tool-approval script may enter
MaxDecisions == 3

-----------------------------------------------------------------------------
(* Values shared by the workflows *)

END == "__end__"
NoResume == "<no resume>"
NoResponse == [kind |-> "none"]

\* an optional value: None, or Some(v)
None == << >>
Some(v) == <<v>>

\* a mutant of Overwrite: a list of messages accumulates
OverwriteAccumulating(state, update) ==
    [f \in DOMAIN state |->
        IF f \notin DOMAIN update THEN state[f]
        ELSE IF f = "messages" THEN state[f] \o update[f]
        ELSE update[f]]

\* the merge of a step's update into fields declared without a reducer: a
\* field of the update replaces the old value, the other fields stay
Overwrite(state, update) ==
    [f \in DOMAIN state |->
        IF f \in DOMAIN update THEN update[f] ELSE state[f]]

\* str.lower() on the strings the drivers read
Lower(s) ==
    CASE s = "Approve" -> "approve"
      [] s = "EXIT"    -> "exit"
      [] OTHER         -> s

-----------------------------------------------------------------------------
(* The checkpointer: for every thread id the checkpoints written, oldest     *)
(* first                                                                    *)

\* latest(session_id): the entry written last, or None for a thread without
\* checkpoints
Latest(log) == IF log = << >> THEN None ELSE Some(log[Len(log)])

\* a mutant of CheckpointWrite: the sequence number is not advanced
CheckpointWriteSameSeq(log, values, next, pending) ==
    Append(log, [seq |-> 1, values |-> values, next |-> next,
                 pending |-> pending])

\* a mutant of CheckpointWrite: the store keeps the newest entry only
CheckpointWriteInPlace(log, values, next, pending) ==
    <<[seq    |-> IF log = << >> THEN 1 ELSE log[Len(log)].seq + 1,
       values |-> values,
       next   |-> next,
       pending |-> pending]>>

\* write(session_id, sequence_no, state_snapshot, pending_suspensions): a new
\* entry at the end of the thread's log, numbered one above the latest
CheckpointWrite(log, values, next, pending) ==
    Append(log, [seq    |-> IF log = << >> THEN 1 ELSE log[Len(log)].seq + 1,
                 values |-> values,
                 next   |-> next,
                 pending |-> pending])

\* the checkpoints of `thread` in the checkpointer `memory`
ThreadLog(memory, thread) ==
    IF thread \in DOMAIN memory THEN memory[thread] ELSE << >>

-----------------------------------------------------------------------------
(* The state of a workflow that is not part of the specification at hand *)

ReviewIdle ==
    /\ rvValues = [proposal_text |-> "", status |-> "pending"]
    /\ rvNext = END
    /\ rvInterrupts = << >>
    /\ rvResume = NoResume
    /\ rvResponse = NoResponse
    /\ rvPc = "unused"
    /\ rvStep = 0
    /\ rvEntered = << >>
    /\ rvSuspended = << >>
    /\ rvResumed = << >>
    /\ rvTrace = << >>
    /\ rvInputs = << >>

EmailIdle ==
    /\ emThreads = << >>
    /\ emThread = 0
    /\ emTasks = {}
    /\ emWrites = << >>
    /\ emRaised = << >>
    /\ emResume = NoResume
    /\ emResult = NoResponse
    /\ emPc = "unused"
    /\ emIndex = 0
    /\ needs_approval = << >>
    /\ emQueuePos = 0
    /\ emRuns = << >>
    /\ emObserved = << >>
    /\ emDecisions = << >>
    /\ emBatch = 0
    /\ emSimulated = FALSE
    /\ emLog = << >>

AgentIdle ==
    /\ agMessages = << >>
    /\ agNext = END
    /\ agInterrupts = << >>
    /\ agResume = None
    /\ agResult = NoResponse
    /\ agPc = "unused"
    /\ agStep = 0
    /\ agExecuted = << >>
    /\ agSuspended = 0
    /\ agDecisions = << >>
    /\ agTrace = << >>

FanIdle ==
    /\ foValues = [messages |-> << >>]
    /\ foTasks = {}
    /\ foWrites = << >>
    /\ foOrder = << >>
    /\ foReceived = << >>
    /\ foResponse = NoResponse
    /\ foPc = "unused"

ChatIdle ==
    /\ ckLog = << >>
    /\ ckThread = ""
    /\ ckTasks = {}
    /\ ckWrites = << >>
    /\ ckResult = NoResponse
    /\ ckPc = "unused"
    /\ ckInputs = << >>
    /\ ckTurns = << >>
    /\ ckRuns = << >>
    /\ ckSaved = {}
    /\ ckCrashes = << >>

SqlIdle ==
    /\ sqLog = << >>
    /\ sqNode = ""
    /\ sqPc = "unused"
    /\ sqAsked = 0
    /\ sqToolSteps = 0
    /\ sqErrors = << >>
    /\ sqSent = << >>

SupIdle ==
    /\ suMessages = << >>
    /\ suCalls = << >>
    /\ suWrites = << >>
    /\ suRan = {}
    /\ suRaised = << >>
    /\ suPending = << >>
    /\ suResume = None
    /\ suResult = NoResponse
    /\ suPc = "unused"
    /\ suInvocations = 0
    /\ suRounds = 0

BotIdle ==
    /\ sbMessages = << >>
    /\ sbSummary = << >>
    /\ sbPc = "unused"
    /\ sbTurns = 0
    /\ sbAppended = << >>
    /\ sbRemoved = {}
    /\ sbTrace = << >>

GreeterIdle ==
    /\ grInitial = [messages |-> << >>]
    /\ grValues = [messages |-> << >>]
    /\ grResponse = NoResponse
    /\ grPc = "unused"

EssentialsIdle ==
    FanIdle /\ ChatIdle /\ SqlIdle /\ SupIdle /\ BotIdle /\ GreeterIdle

-----------------------------------------------------------------------------
(* 5-human-in-the-loop.py: review graph *)

\* what the user may type at the two prompts
ProposalTexts == {"draft v1", "draft v2"}
UserInputs == {"approve", "reject", "edit", "Approve", "maybe", "exit", "EXIT",
               "draft v2", "draft v3"}

InterruptingNodes == {"review", "edit"}

\* State(proposal_text=proposal_text, status="pending")
InitialState(text) == [proposal_text |-> text, status |-> "pending"]

\* the payload review_node passes to interrupt()
ReviewRequest(state) ==
    [question |-> "What would you like to do?",
     details  |-> state.proposal_text,
     options  |-> <<"approve", "reject", "edit">>]

\* the payload edit_node passes to interrupt()
EditRequest(state) ==
    [question |-> "Edit the proposal text",
     details  |-> state.proposal_text]

\* a mutant of ReviewGoto: the decision is compared without regard to case
ReviewGotoLowercased(decision) ==
    IF Lower(decision) = "approve" THEN "approve"
    ELSE IF Lower(decision) = "reject" THEN "reject"
    ELSE "edit"

\* a mutant of ReviewGoto: the two branches lead to each other's node
ReviewGotoSwapped(decision) ==
    IF decision = "approve" THEN "reject"
    ELSE IF decision = "reject" THEN "approve"
    ELSE "edit"

\* a mutant of ReviewGoto: the approve branch is missing
ReviewGotoWithoutApprove(decision) ==
    IF decision = "reject" THEN "reject" ELSE "edit"

\* Command(goto=...) chosen by review_node from the value of interrupt()
ReviewGoto(decision) ==
    IF decision = "approve" THEN "approve"
    ELSE IF decision = "reject" THEN "reject"
    ELSE "edit"

\* a mutant of ReviewEdge: edit leads to END
ReviewEdgeEditEnds(node) == END

\* static edges of the review graph
ReviewEdge(node) ==
    CASE node = "approve" -> END
      [] node = "reject"  -> END
      [] node = "edit"    -> "review"

\* the Interrupt object surfaced to the caller
MkInterrupt(node, step, value) == [id |-> <<node, step>>, value |-> value]

\* a mutant of MkResponse: the "__interrupt__" key is always present
MkResponseAlwaysInterrupt(values, interrupts) ==
    [kind |-> "interrupted", values |-> values, interrupt |-> interrupts]

\* the mapping graph.invoke returns
MkResponse(values, interrupts) ==
    IF interrupts = << >>
    THEN [kind |-> "final", values |-> values]
    ELSE [kind |-> "interrupted", values |-> values, interrupt |-> interrupts]

HasInterrupt(response) == response.kind = "interrupted"

ReviewInit ==
    /\ EssentialsIdle
    /\ EmailIdle
    /\ AgentIdle
    /\ \E text \in ProposalTexts : rvValues = InitialState(text)
    /\ rvNext = "review"
    /\ rvInterrupts = << >>
    /\ rvResume = NoResume
    /\ rvResponse = NoResponse
    /\ rvPc = "start"
    /\ rvStep = 0
    /\ rvEntered = [n \in InterruptingNodes |-> 0]
    /\ rvSuspended = [n \in InterruptingNodes |-> 0]
    /\ rvResumed = [n \in InterruptingNodes |-> 0]
    /\ rvTrace = << >>
    /\ rvInputs = << >>

\* response = graph.invoke(initial_state, config=config)
GraphInvoke ==
    /\ UNCHANGED <<emailVars, agentVars, essentialsVars>>
    /\ rvPc = "start"
    /\ rvPc' = "running"
    /\ rvResume' = NoResume
    /\ UNCHANGED <<rvValues, rvNext, rvInterrupts, rvResponse, rvStep,
                   rvEntered, rvSuspended, rvResumed, rvTrace, rvInputs>>

\* interrupt() inside a node: no resume value, so the run is suspended
Suspend(node, request) ==
    /\ rvInterrupts' = <<MkInterrupt(node, rvStep, request)>>
    /\ rvResponse' = MkResponse(rvValues, rvInterrupts')
    /\ rvSuspended' = [rvSuspended EXCEPT ![node] = @ + 1]
    /\ rvPc' = "returned_to_loop"
    /\ UNCHANGED <<rvValues, rvNext, rvResume, rvStep, rvResumed>>

\* the super-step of `node` completed with `update`, routed to `goto`
Complete(node, update, goto) ==
    /\ rvValues' = Overwrite(rvValues, update)
    /\ rvNext' = goto
    /\ rvStep' = rvStep + 1
    /\ rvInterrupts' = << >>
    /\ rvResume' = NoResume
    /\ IF goto = END
       THEN /\ rvResponse' = MkResponse(rvValues', << >>)
            /\ rvPc' = "returned_to_loop"
       ELSE UNCHANGED <<rvResponse, rvPc>>

EmptyUpdate == [f \in {} |-> ""]

\* a mutant of EnterNode: the code before interrupt() is skipped on re-entry
EnterNodeSkippedOnResume(entered, node, resume) ==
    IF resume = NoResume THEN [entered EXCEPT ![node] = @ + 1] ELSE entered

\* the print on the first line of review_node / edit_node: the node function is
\* called from its top whether or not a resume value is waiting
EnterNode(entered, node, resume) == [entered EXCEPT ![node] = @ + 1]

ReviewNode ==
    /\ UNCHANGED <<emailVars, agentVars, essentialsVars>>
    /\ rvPc = "running"
    /\ rvNext = "review"
    /\ rvEntered' = EnterNode(rvEntered, "review", rvResume)
    /\ rvTrace' = Append(rvTrace, "review")
    /\ IF rvResume = NoResume
       THEN Suspend("review", ReviewRequest(rvValues))
       ELSE /\ Complete("review", EmptyUpdate, ReviewGoto(rvResume))
            /\ rvResumed' = [rvResumed EXCEPT !["review"] = @ + 1]
            /\ UNCHANGED rvSuspended
    /\ UNCHANGED rvInputs

ApproveNode ==
    /\ UNCHANGED <<emailVars, agentVars, essentialsVars>>
    /\ rvPc = "running"
    /\ rvNext = "approve"
    /\ Complete("approve", [status |-> "approved"], ReviewEdge("approve"))
    /\ rvTrace' = Append(rvTrace, "approve")
    /\ UNCHANGED <<rvEntered, rvSuspended, rvResumed, rvInputs>>

RejectNode ==
    /\ UNCHANGED <<emailVars, agentVars, essentialsVars>>
    /\ rvPc = "running"
    /\ rvNext = "reject"
    /\ Complete("reject", [status |-> "rejected"], ReviewEdge("reject"))
    /\ rvTrace' = Append(rvTrace, "reject")
    /\ UNCHANGED <<rvEntered, rvSuspended, rvResumed, rvInputs>>

EditNode ==
    /\ UNCHANGED <<emailVars, agentVars, essentialsVars>>
    /\ rvPc = "running"
    /\ rvNext = "edit"
    /\ rvEntered' = EnterNode(rvEntered, "edit", rvResume)
    /\ rvTrace' = Append(rvTrace, "edit")
    /\ IF rvResume = NoResume
       THEN Suspend("edit", EditRequest(rvValues))
       ELSE /\ Complete("edit", [proposal_text |-> rvResume], ReviewEdge("edit"))
            /\ rvResumed' = [rvResumed EXCEPT !["edit"] = @ + 1]
            /\ UNCHANGED rvSuspended
    /\ UNCHANGED rvInputs

\* one turn of `while "__interrupt__" in response`: read the input, then
\* either return None or graph.invoke(Command(resume=user_input))
HandleInterrupt ==
    /\ UNCHANGED <<emailVars, agentVars, essentialsVars>>
    /\ rvPc = "returned_to_loop"
    /\ HasInterrupt(rvResponse)
    /\ Len(rvInputs) < MaxResumes
    /\ \E user_input \in UserInputs :
         /\ rvInputs' = Append(rvInputs, user_input)
         /\ IF Lower(user_input) = "exit"
            THEN /\ rvPc' = "exited"
                 /\ UNCHANGED rvResume
            ELSE /\ rvPc' = "running"
                 /\ rvResume' = user_input
    /\ UNCHANGED <<rvValues, rvNext, rvInterrupts, rvResponse, rvStep,
                   rvEntered, rvSuspended, rvResumed, rvTrace>>

\* return response
HandleInterruptsReturn ==
    /\ UNCHANGED <<emailVars, agentVars, essentialsVars>>
    /\ rvPc = "returned_to_loop"
    /\ ~HasInterrupt(rvResponse)
    /\ rvPc' = "done"
    /\ UNCHANGED <<rvValues, rvNext, rvInterrupts, rvResume, rvResponse,
                   rvStep, rvEntered, rvSuspended, rvResumed, rvTrace, rvInputs>>

ReviewNext ==
    \/ GraphInvoke
    \/ ReviewNode
    \/ ApproveNode
    \/ RejectNode
    \/ EditNode
    \/ HandleInterrupt
    \/ HandleInterruptsReturn

SpecReview == ReviewInit /\ [][ReviewNext]_vars

-----------------------------------------------------------------------------
(* 7-application-email-agent.py: email triage graph *)


Intents == {"question", "bug", "feature", "other"}
Priorities == {"low", "medium", "high", "critical"}

\* what a reviewer may pass to Command(resume=...)
ResumeValues == {"approve", "reject", "Approve"}

\* rag_search tool calls the model may request in search_documentation
SearchCalls == {0, 1}

\* graph.add_node order
EmailNodes == <<"read_email", "classify_intent", "bug_tracking",
                "search_documentation", "write_response", "human_review",
                "send_reply">>

EmailNodeSet == {EmailNodes[k] : k \in 1..Len(EmailNodes)}

\* the joined documents rag_search returns
rag_search == "documents"

EmptyWrites == [n \in {} |-> EmptyUpdate]

\* initial_state of process_email_batch, written to the channels of a new
\* thread: the keys the input does not hold are absent
EmailInput(i) ==
    [email |-> <<"email", i>>, subject |-> <<"subject", i>>,
     body |-> <<"body", i>>,
     classification |-> None, ticket_id |-> None, ticket_description |-> None,
     search_results |-> None, customer_history |-> None,
     draft_response |-> None, human_decision |-> None]

\* classification.get(key) with `classification = state.get(...) or {}`
ClassificationGet(state, key) ==
    IF state.classification = None THEN "" ELSE state.classification[1][key]

\* return value of classify_intent
classify_intent(response) == [classification |-> Some(response)]

\* return value of search_documentation: one result per rag_search tool call
search_documentation(calls) ==
    [search_results |-> Some([k \in 1..calls |-> rag_search])]

\* return value of bug_tracking
bug_tracking(state, uuid) ==
    [ticket_id |-> Some(<<"BUG", uuid>>),
     ticket_description |->
         Some([intent   |-> ClassificationGet(state, "intent"),
               priority |-> ClassificationGet(state, "priority")])]

\* the state write_response reads for its context sections
WriteResponseContext(state) ==
    [ticket_id |-> state.ticket_id, search_results |-> state.search_results]

\* return value of write_response
write_response(content) == [draft_response |-> Some(content)]

\* the payload human_review passes to interrupt()
HumanReviewRequest(state) ==
    [enquiry        |-> state.body,
     draft_response |-> state.draft_response,
     priority       |-> ClassificationGet(state, "priority"),
     intent         |-> ClassificationGet(state, "intent"),
     ticket_id      |-> state.ticket_id,
     action         |-> "Please review and approve/edit this response",
     options        |-> <<"approve", "reject">>]

\* a mutant of human_review: the value of interrupt() is lost
human_review_without_decision(human_decision) == [human_decision |-> None]

\* return value of human_review once interrupt() has returned
human_review(human_decision) == [human_decision |-> Some(human_decision)]

\* a mutant of route_from_classification: every email fans out to both nodes
route_from_classification_always_both(state) ==
    {"bug_tracking", "search_documentation"}

route_from_classification(state) ==
    IF ClassificationGet(state, "intent") = "bug"
    THEN {"bug_tracking", "search_documentation"}
    ELSE {"search_documentation"}

\* a mutant of decide_review_needed: "other" is compared with the priority
decide_review_needed_other_priority(state) ==
    IF \/ ClassificationGet(state, "priority") \in {"high", "critical"}
       \/ ClassificationGet(state, "priority") = "other"
    THEN "human_review"
    ELSE "send_reply"

\* a mutant of decide_review_needed: the intent is not looked at
decide_review_needed_by_priority(state) ==
    IF ClassificationGet(state, "priority") \in {"high", "critical"}
    THEN "human_review"
    ELSE "send_reply"

decide_review_needed(state) ==
    IF \/ ClassificationGet(state, "priority") \in {"high", "critical"}
       \/ ClassificationGet(state, "intent") = "other"
    THEN "human_review"
    ELSE "send_reply"

\* a mutant of route_after_review: everything but "reject" is sent
route_after_review_unless_rejected(state) ==
    IF state.human_decision # Some("reject") THEN "send_reply" ELSE END

route_after_review(state) ==
    IF state.human_decision = Some("approve") THEN "send_reply" ELSE END

\* the edges of the graph: the nodes that follow `node` given the merged state
EmailSuccessors(node, state) ==
    CASE node = "read_email"           -> {"classify_intent"}
      [] node = "classify_intent"      -> route_from_classification(state)
      [] node = "bug_tracking"         -> {"write_response"}
      [] node = "search_documentation" -> {"write_response"}
      [] node = "write_response"       -> {decide_review_needed(state)}
      [] node = "human_review"         -> {route_after_review(state)} \ {END}
      [] node = "send_reply"           -> {}

\* a field without a reducer: the update replaces the old value
ApplyUpdate(state, update) ==
    [f \in DOMAIN state |-> IF f \in DOMAIN update THEN update[f] ELSE state[f]]

\* the updates of one super-step applied in node registration order
RECURSIVE MergeWrites(_, _, _)
MergeWrites(state, writes, k) ==
    IF k > Len(EmailNodes) THEN state
    ELSE MergeWrites(IF EmailNodes[k] \in DOMAIN writes
                     THEN ApplyUpdate(state, writes[EmailNodes[k]])
                     ELSE state,
                     writes, k + 1)

\* a mutant of WaveComplete: the step ends when its first node has finished
WaveCompleteOnFirst(tasks, writes, raised) ==
    DOMAIN writes # {} \/ raised # << >>

\* the barrier of a super-step: every node of the step has finished or
\* raised an interrupt
WaveComplete(tasks, writes, raised) == tasks = {}

\* the decision process_review_queue simulates for a queued item
SimulatedDecision(priority, intent) ==
    IF priority = "critical" THEN "reject" ELSE "approve"

EmailInit ==
    /\ EssentialsIdle
    /\ ReviewIdle
    /\ AgentIdle
    /\ emThreads = << >>
    /\ emThread = 0
    /\ emTasks = {}
    /\ emWrites = EmptyWrites
    /\ emRaised = << >>
    /\ emResume = NoResume
    /\ emResult = NoResponse
    /\ emPc = "batch"
    /\ emIndex = 1
    /\ needs_approval = << >>
    /\ emQueuePos = 0
    /\ emRuns = << >>
    /\ emObserved = << >>
    /\ emDecisions = << >>
    /\ emBatch = NumEmails
    /\ emSimulated = FALSE
    /\ emLog = << >>

\* main as the script runs it: a batch of BatchEmails test emails, each queued
\* item decided by the simulated decision
EmailBatchInit ==
    /\ EssentialsIdle
    /\ ReviewIdle
    /\ AgentIdle
    /\ emThreads = << >>
    /\ emThread = 0
    /\ emTasks = {}
    /\ emWrites = EmptyWrites
    /\ emRaised = << >>
    /\ emResume = NoResume
    /\ emResult = NoResponse
    /\ emPc = "batch"
    /\ emIndex = 1
    /\ needs_approval = << >>
    /\ emQueuePos = 0
    /\ emRuns = << >>
    /\ emObserved = << >>
    /\ emDecisions = << >>
    /\ emBatch = BatchEmails
    /\ emSimulated = TRUE
    /\ emLog = << >>

\* a mutant of NewThreadId: one thread id for every email of the batch
NewThreadIdShared(i) == 1

\* thread_id = str(uuid.uuid4()): an id no earlier email of the batch has
NewThreadId(i) == i

\* process_email_batch, one turn of the loop up to app.invoke(initial_state,
\* config): a fresh thread id, the input written to the thread, START -> read_email
ProcessEmail ==
    /\ UNCHANGED <<reviewVars, agentVars, essentialsVars, emConfig>>
    /\ emPc = "batch"
    /\ emIndex <= emBatch
    /\ LET thread_id == NewThreadId(emIndex) IN
         /\ emThreads' = (thread_id :> [values     |-> EmailInput(emIndex),
                                        next       |-> {"read_email"},
                                        interrupts |-> << >>,
                                        step       |-> 0]) @@ emThreads
         /\ emLog' = (thread_id :>
                         CheckpointWrite(ThreadLog(emLog, thread_id),
                                         EmailInput(emIndex), {"read_email"},
                                         << >>)) @@ emLog
         /\ emThread' = thread_id
         /\ emRuns' = (thread_id :> [n \in EmailNodeSet |-> 0]) @@ emRuns
         /\ emObserved' = (thread_id :> None) @@ emObserved
         /\ emDecisions' = (thread_id :> << >>) @@ emDecisions
    /\ emTasks' = {"read_email"}
    /\ emWrites' = EmptyWrites
    /\ emRaised' = << >>
    /\ emResume' = NoResume
    /\ emPc' = "batch_invoke"
    /\ UNCHANGED <<emResult, emIndex, needs_approval, emQueuePos>>

\* `node` is ready to run in the current super-step
Ready(node) == emThread # 0 /\ node \in emTasks

\* the state the nodes of the current super-step read
EmailState == emThreads[emThread].values

\* `node` returned `update`
TaskDone(node, update) ==
    /\ emTasks' = emTasks \ {node}
    /\ emWrites' = (node :> update) @@ emWrites
    /\ emRuns' = [emRuns EXCEPT ![emThread][node] = @ + 1]
    /\ UNCHANGED <<emThreads, emThread, emResume, emResult, emPc, emIndex,
                   needs_approval, emQueuePos, emDecisions>>

ReadEmail ==
    /\ UNCHANGED <<reviewVars, agentVars, essentialsVars, emConfig, emLog>>
    /\ Ready("read_email")
    /\ TaskDone("read_email", EmptyUpdate)
    /\ UNCHANGED <<emRaised, emObserved>>

ClassifyIntent ==
    /\ UNCHANGED <<reviewVars, agentVars, essentialsVars, emConfig, emLog>>
    /\ Ready("classify_intent")
    /\ \E intent \in Intents, priority \in Priorities :
         TaskDone("classify_intent",
                  classify_intent([intent |-> intent, priority |-> priority]))
    /\ UNCHANGED <<emRaised, emObserved>>

SearchDocumentation ==
    /\ UNCHANGED <<reviewVars, agentVars, essentialsVars, emConfig, emLog>>
    /\ Ready("search_documentation")
    /\ \E calls \in SearchCalls :
         TaskDone("search_documentation", search_documentation(calls))
    /\ UNCHANGED <<emRaised, emObserved>>

BugTracking ==
    /\ UNCHANGED <<reviewVars, agentVars, essentialsVars, emConfig, emLog>>
    /\ Ready("bug_tracking")
    /\ TaskDone("bug_tracking", bug_tracking(EmailState, emThread))
    /\ UNCHANGED <<emRaised, emObserved>>

WriteResponse ==
    /\ UNCHANGED <<reviewVars, agentVars, essentialsVars, emConfig, emLog>>
    /\ Ready("write_response")
    /\ emObserved' = [emObserved EXCEPT
                        ![emThread] = Some(WriteResponseContext(EmailState))]
    /\ TaskDone("write_response", write_response("draft"))
    /\ UNCHANGED emRaised

HumanReview ==
    /\ UNCHANGED <<reviewVars, agentVars, essentialsVars, emConfig, emLog>>
    /\ Ready("human_review")
    /\ IF emResume = NoResume
       THEN /\ emRaised' = Append(emRaised,
                              MkInterrupt("human_review",
                                          emThreads[emThread].step,
                                          HumanReviewRequest(EmailState)))
            /\ emTasks' = emTasks \ {"human_review"}
            /\ emRuns' = [emRuns EXCEPT ![emThread]["human_review"] = @ + 1]
            /\ UNCHANGED <<emThreads, emThread, emWrites, emResume, emResult,
                           emPc, emIndex, needs_approval, emQueuePos,
                           emDecisions>>
       ELSE /\ TaskDone("human_review", human_review(emResume))
            /\ UNCHANGED emRaised
    /\ UNCHANGED emObserved

SendReply ==
    /\ UNCHANGED <<reviewVars, agentVars, essentialsVars, emConfig, emLog>>
    /\ Ready("send_reply")
    /\ TaskDone("send_reply", EmptyUpdate)
    /\ UNCHANGED <<emRaised, emObserved>>

\* app.invoke returned to the driver that called it
ReturnToDriver(result) ==
    /\ emResult' = result
    /\ emThread' = 0
    /\ emTasks' = {}
    /\ emPc' = IF emPc = "batch_invoke" THEN "batch_result" ELSE "review_result"

\* the end of a super-step: an interrupt ends the invocation with the request
\* stored in the checkpoint; otherwise the updates are merged, the checkpoint
\* written and the routers evaluated on the merged state
EndWave ==
    /\ UNCHANGED <<reviewVars, agentVars, essentialsVars, emConfig>>
    /\ emThread # 0
    /\ WaveComplete(emTasks, emWrites, emRaised)
    /\ LET cp     == emThreads[emThread]
           merged == MergeWrites(cp.values, emWrites, 1)
           next   == UNION {EmailSuccessors(n, merged) : n \in DOMAIN emWrites}
       IN IF emRaised # << >>
          THEN /\ emThreads' = [emThreads EXCEPT
                    ![emThread] = [cp EXCEPT
                       !.interrupts = emRaised,
                       !.next = {emRaised[k].id[1] : k \in 1..Len(emRaised)}]]
               /\ ReturnToDriver(MkResponse(cp.values, emRaised))
          ELSE /\ emThreads' = [emThreads EXCEPT
                    ![emThread] = [values     |-> merged,
                                   next       |-> next,
                                   interrupts |-> << >>,
                                   step       |-> cp.step + 1]]
               /\ IF next = {}
                  THEN ReturnToDriver(MkResponse(merged, << >>))
                  ELSE /\ emTasks' = next
                       /\ UNCHANGED <<emThread, emResult, emPc>>
    /\ emLog' = [emLog EXCEPT ![emThread] =
                    CheckpointWrite(@, emThreads'[emThread].values,
                                    emThreads'[emThread].next,
                                    emThreads'[emThread].interrupts)]
    /\ emWrites' = EmptyWrites
    /\ emRaised' = << >>
    /\ emResume' = NoResume
    /\ UNCHANGED <<emIndex, needs_approval, emQueuePos, emRuns, emObserved,
                   emDecisions>>

\* process_email_batch, the rest of the loop turn: queue the result if it
\* holds "__interrupt__"
CollectResult ==
    /\ UNCHANGED <<reviewVars, agentVars, essentialsVars, emConfig, emLog>>
    /\ emPc = "batch_result"
    /\ needs_approval' =
         IF HasInterrupt(emResult)
         THEN Append(needs_approval, [result    |-> emResult,
                                      thread_id |-> NewThreadId(emIndex),
                                      email_id  |-> emIndex])
         ELSE needs_approval
    /\ emIndex' = emIndex + 1
    /\ emPc' = "batch"
    /\ UNCHANGED <<emThreads, emThread, emTasks, emWrites, emRaised, emResume,
                   emResult, emQueuePos, emRuns, emObserved, emDecisions>>

\* process_email_batch returns; main calls process_review_queue
StartReviewQueue ==
    /\ UNCHANGED <<reviewVars, agentVars, essentialsVars, emConfig, emLog>>
    /\ emPc = "batch"
    /\ emIndex > emBatch
    /\ emPc' = IF needs_approval = << >> THEN "finished" ELSE "review"
    /\ emQueuePos' = 1
    /\ UNCHANGED <<emThreads, emThread, emTasks, emWrites, emRaised, emResume,
                   emResult, emIndex, needs_approval, emRuns, emObserved,
                   emDecisions>>

\* process_review_queue, one item up to app.invoke(Command(resume=decision)):
\* the decision is the simulated one or what a reviewer enters
ReviewItem ==
    /\ UNCHANGED <<reviewVars, agentVars, essentialsVars, emConfig, emLog>>
    /\ emPc = "review"
    /\ emQueuePos <= Len(needs_approval)
    /\ LET item           == needs_approval[emQueuePos]
           interrupts     == item.result.interrupt
           interrupt_data == interrupts[Len(interrupts)].value
           simulated      == SimulatedDecision(interrupt_data.priority,
                                               interrupt_data.intent)
       IN \E decision \in IF emSimulated THEN {simulated}
                          ELSE ResumeValues \cup {simulated} :
            /\ emThread' = item.thread_id
            /\ emTasks' = emThreads[item.thread_id].next
            /\ emResume' = decision
            /\ emDecisions' = [emDecisions EXCEPT
                                 ![item.thread_id] = Append(@, decision)]
    /\ emWrites' = EmptyWrites
    /\ emRaised' = << >>
    /\ emPc' = "review_invoke"
    /\ UNCHANGED <<emThreads, emResult, emIndex, needs_approval, emQueuePos,
                   emRuns, emObserved>>

\* a mutant of NextReviewItem: the loop steps over every second item
NextReviewItemSkipsOne ==
    /\ UNCHANGED <<reviewVars, agentVars, essentialsVars, emConfig, emLog>>
    /\ emPc = "review_result"
    /\ emQueuePos' = emQueuePos + 2
    /\ emPc' = "review"
    /\ UNCHANGED <<emThreads, emThread, emTasks, emWrites, emRaised, emResume,
                   emResult, emIndex, needs_approval, emRuns, emObserved,
                   emDecisions>>

\* process_review_queue: the invocation returned, on to the next item
NextReviewItem ==
    /\ UNCHANGED <<reviewVars, agentVars, essentialsVars, emConfig, emLog>>
    /\ emPc = "review_result"
    /\ emQueuePos' = emQueuePos + 1
    /\ emPc' = "review"
    /\ UNCHANGED <<emThreads, emThread, emTasks, emWrites, emRaised, emResume,
                   emResult, emIndex, needs_approval, emRuns, emObserved,
                   emDecisions>>

\* process_review_queue returns
ReviewQueueDone ==
    /\ UNCHANGED <<reviewVars, agentVars, essentialsVars, emConfig, emLog>>
    /\ emPc = "review"
    /\ emQueuePos > Len(needs_approval)
    /\ emPc' = "finished"
    /\ UNCHANGED <<emThreads, emThread, emTasks, emWrites, emRaised, emResume,
                   emResult, emIndex, needs_approval, emQueuePos, emRuns,
                   emObserved, emDecisions>>

EmailNext ==
    \/ ProcessEmail
    \/ ReadEmail
    \/ ClassifyIntent
    \/ SearchDocumentation
    \/ BugTracking
    \/ WriteResponse
    \/ HumanReview
    \/ SendReply
    \/ EndWave
    \/ CollectResult
    \/ StartReviewQueue
    \/ ReviewItem
    \/ NextReviewItem
    \/ ReviewQueueDone

SpecEmail == EmailInit /\ [][EmailNext]_vars

SpecEmailBatch == EmailBatchInit /\ [][EmailNext]_vars

-----------------------------------------------------------------------------
(* human_in_the_loop.py: create_agent with HumanInTheLoopMiddleware          *)
(* (interrupt_on = {"send_email": True}) and the script that drives it.      *)
(* The agent graph is model -> after_model (the middleware) -> tools ->      *)
(* model, ending after a model call without tool calls.                      *)

\* what the user may type at "Action (approve/edit/reject): "
DecisionInputs == {"approve", "edit", "reject", "Approve"}

\* tool calls one model response may hold (0: a final answer)
ToolCallCounts == {0, 1, 2}

\* the tools of interrupt_on that require approval
InterruptOn == {"send_email"}

DraftArgs == "args drafted by the model"
EditedArgs == "I can only approve up to 500k, please send over details."

HumanMessage(content) ==
    [type |-> "human", content |-> content, tool_calls |-> << >>]

\* a model response holding n send_email calls; `turn` tells the calls of
\* different responses apart
AIMessage(n, turn) ==
    [type |-> "ai", content |-> IF n = 0 THEN "answer" ELSE "",
     tool_calls |-> [k \in 1..n |-> [name |-> "send_email",
                                     args |-> DraftArgs,
                                     id   |-> <<turn, k>>]]]

ToolMessage(content, tool_call) ==
    [type |-> "tool", content |-> content, tool_calls |-> << >>,
     tool_call_id |-> tool_call.id]

\* return value of the send_email tool
send_email(args) == "Email sent successfully"

LastMessage(messages) == messages[Len(messages)]

\* the last model response of the history
RECURSIVE LastAI(_)
LastAI(messages) ==
    IF LastMessage(messages).type = "ai" THEN LastMessage(messages)
    ELSE LastAI(SubSeq(messages, 1, Len(messages) - 1))

\* a mutant of AnsweredIds: no call counts as answered
AnsweredIdsNone(messages) == {}

\* ids of the tool calls a ToolMessage of the history answers
AnsweredIds(messages) ==
    {messages[k].tool_call_id :
        k \in {j \in 1..Len(messages) : messages[j].type = "tool"}}

\* the tool calls of the last model response that no ToolMessage answers
PendingToolCalls(messages) ==
    LET calls == LastAI(messages).tool_calls
    IN SelectSeq(calls, LAMBDA c : c.id \notin AnsweredIds(messages))

\* the calls of the last model response that interrupt_on guards
ActionRequests(messages) ==
    SelectSeq(LastAI(messages).tool_calls, LAMBDA c : c.name \in InterruptOn)

\* the payload the middleware passes to interrupt()
HITLRequest(messages) ==
    [action_requests |->
        [k \in 1..Len(ActionRequests(messages)) |->
            [name |-> ActionRequests(messages)[k].name,
             args |-> ActionRequests(messages)[k].args]]]

\* resume_decision built by the script for the entered decision
ResumeDecision(decision) ==
    CASE decision = "approve" ->
           [decisions |-> <<[type |-> "approve",
                             message |-> "Email approved."]>>]
      [] decision = "edit" ->
           [decisions |-> <<[type |-> "edit",
                             edited_action |-> [name |-> "send_email",
                                                args |-> EditedArgs]]>>]
      [] decision = "reject" ->
           [decisions |-> <<[type |-> "reject",
                             message |-> "Ask for more budget details first."]>>]

\* the tool call the middleware keeps for a decision: the edited action
\* replaces the call, approve and reject leave it as the model wrote it
RevisedCall(call, decision) ==
    IF decision.type = "edit"
    THEN [name |-> decision.edited_action.name,
          args |-> decision.edited_action.args,
          id   |-> call.id]
    ELSE call

\* a mutant of RejectionMessages: a rejected call gets no ToolMessage, so it
\* stays pending and reaches the tools node
RejectionMessagesDropped(calls, decisions) == << >>

\* the ToolMessages the middleware writes for the rejected calls, holding
\* the reviewer's feedback
RejectionMessages(calls, decisions) ==
    LET rejected == SelectSeq([k \in 1..Len(calls) |-> k],
                              LAMBDA k : decisions[k].type = "reject")
    IN [j \in 1..Len(rejected) |->
           ToolMessage(decisions[rejected[j]].message, calls[rejected[j]])]

\* the update of after_model on resume: the last model response with the
\* revised calls, then the rejection messages
ApplyDecisions(messages, decisions) ==
    LET ai      == LastAI(messages)
        revised == [k \in 1..Len(ai.tool_calls) |->
                       RevisedCall(ai.tool_calls[k], decisions[k])]
    IN SubSeq(messages, 1, Len(messages) - 1)
         \o <<[ai EXCEPT !.tool_calls = revised]>>
         \o RejectionMessages(ai.tool_calls, decisions)

\* the edge leaving after_model: tools while a call is pending, the model
\* again when every call was answered by a rejection, the end otherwise
AfterModelRoute(messages) ==
    IF PendingToolCalls(messages) # << >> THEN "tools"
    ELSE IF LastMessage(messages).type = "tool" THEN "model"
    ELSE END

AgentInit ==
    /\ EssentialsIdle
    /\ ReviewIdle
    /\ EmailIdle
    /\ agMessages = << >>
    /\ agNext = "model"
    /\ agInterrupts = << >>
    /\ agResume = None
    /\ agResult = NoResponse
    /\ agPc = "start"
    /\ agStep = 0
    /\ agExecuted = << >>
    /\ agSuspended = 0
    /\ agDecisions = << >>
    /\ agTrace = << >>

\* result = agent.invoke({"messages": [HumanMessage(incoming_email)]}, config)
AgentInvoke ==
    /\ UNCHANGED <<reviewVars, emailVars, essentialsVars>>
    /\ agPc = "start"
    /\ agMessages' = <<HumanMessage("incoming_email")>>
    /\ agPc' = "running"
    /\ UNCHANGED <<agNext, agInterrupts, agResume, agResult, agStep,
                   agExecuted, agSuspended, agDecisions, agTrace>>

\* the invocation returned to the script
AgentReturn(messages, interrupts) ==
    /\ agResult' = MkResponse(messages, interrupts)
    /\ agPc' = "loop"

\* the model node: the response is the model's choice
ModelNode ==
    /\ UNCHANGED <<reviewVars, emailVars, essentialsVars>>
    /\ agPc = "running"
    /\ agNext = "model"
    /\ \E n \in ToolCallCounts :
         agMessages' = Append(agMessages, AIMessage(n, agStep))
    /\ agNext' = "after_model"
    /\ agStep' = agStep + 1
    /\ agTrace' = Append(agTrace, "model")
    /\ UNCHANGED <<agInterrupts, agResume, agResult, agPc, agExecuted,
                   agSuspended, agDecisions>>

\* HumanInTheLoopMiddleware.after_model: nothing to review, or interrupt(),
\* or (on resume) the decisions applied to the pending calls
AfterModelNode ==
    /\ UNCHANGED <<reviewVars, emailVars, essentialsVars>>
    /\ agPc = "running"
    /\ agNext = "after_model"
    /\ agTrace' = Append(agTrace, "after_model")
    /\ IF ActionRequests(agMessages) = << >>
       THEN /\ agNext' = AfterModelRoute(agMessages)
            /\ agStep' = agStep + 1
            /\ IF agNext' = END
               THEN AgentReturn(agMessages, << >>)
               ELSE UNCHANGED <<agResult, agPc>>
            /\ UNCHANGED <<agMessages, agInterrupts, agResume, agSuspended>>
       ELSE IF agResume = None
       THEN /\ agInterrupts' = <<MkInterrupt("after_model", agStep,
                                             HITLRequest(agMessages))>>
            /\ AgentReturn(agMessages, agInterrupts')
            /\ agSuspended' = agSuspended + 1
            /\ UNCHANGED <<agMessages, agNext, agStep, agResume>>
       ELSE IF Len(agResume[1].decisions) # Len(ActionRequests(agMessages))
       THEN \* ValueError: the decisions do not match the pending calls
            /\ agPc' = "error"
            /\ agResume' = None
            /\ UNCHANGED <<agMessages, agNext, agInterrupts, agResult, agStep,
                           agSuspended>>
       ELSE /\ agMessages' = ApplyDecisions(agMessages, agResume[1].decisions)
            /\ agNext' = AfterModelRoute(agMessages')
            /\ agStep' = agStep + 1
            /\ agInterrupts' = << >>
            /\ agResume' = None
            /\ UNCHANGED <<agResult, agPc, agSuspended>>
    /\ UNCHANGED <<agExecuted, agDecisions>>

\* the tools node: every pending call is executed and answered
ToolsNode ==
    /\ UNCHANGED <<reviewVars, emailVars, essentialsVars>>
    /\ agPc = "running"
    /\ agNext = "tools"
    /\ LET calls == PendingToolCalls(agMessages) IN
         /\ agExecuted' = agExecuted \o
              [k \in 1..Len(calls) |-> [args |-> calls[k].args,
                                        id   |-> calls[k].id]]
         /\ agMessages' = agMessages \o
              [k \in 1..Len(calls) |->
                  ToolMessage(send_email(calls[k].args), calls[k])]
    /\ agNext' = "model"
    /\ agStep' = agStep + 1
    /\ agTrace' = Append(agTrace, "tools")
    /\ UNCHANGED <<agInterrupts, agResume, agResult, agPc, agSuspended,
                   agDecisions>>

\* one turn of `while "__interrupt__" in result`: read the decision, then
\* agent.invoke(Command(resume=resume_decision)), or sys.exit(1)
AgentHandleInterrupt ==
    /\ UNCHANGED <<reviewVars, emailVars, essentialsVars>>
    /\ agPc = "loop"
    /\ HasInterrupt(agResult)
    /\ Len(agDecisions) < MaxDecisions
    /\ \E decision \in DecisionInputs :
         /\ agDecisions' = Append(agDecisions, decision)
         /\ IF decision \in {"approve", "edit", "reject"}
            THEN /\ agResume' = Some(ResumeDecision(decision))
                 /\ agPc' = "running"
            ELSE /\ agPc' = "exit"
                 /\ UNCHANGED agResume
    /\ UNCHANGED <<agMessages, agNext, agInterrupts, agResult, agStep,
                   agExecuted, agSuspended, agTrace>>

\* the loop ends: print the last message
AgentDone ==
    /\ UNCHANGED <<reviewVars, emailVars, essentialsVars>>
    /\ agPc = "loop"
    /\ ~HasInterrupt(agResult)
    /\ agPc' = "done"
    /\ UNCHANGED <<agMessages, agNext, agInterrupts, agResume, agResult,
                   agStep, agExecuted, agSuspended, agDecisions, agTrace>>

AgentNext ==
    \/ AgentInvoke
    \/ ModelNode
    \/ AfterModelNode
    \/ ToolsNode
    \/ AgentHandleInterrupt
    \/ AgentDone

SpecAgent == AgentInit /\ [][AgentNext]_vars

-----------------------------------------------------------------------------
(* langgraph-essentials/2-static-edges.py: A fans out to B, C and D, which  *)
(* run in one super-step and converge on E                                  *)

\* upper bound on the length of the `messages` the graph is invoked with
MaxInitial == 2

\* the entries an initial state may hold; the script invokes the graph with
\* ["Initial String"]
InitialEntries == {"Initial String", "Second String"}

RECURSIVE SeqsUpTo(_, _)
SeqsUpTo(S, n) ==
    IF n = 0 THEN {<< >>}
    ELSE LET shorter == SeqsUpTo(S, n - 1)
         IN shorter \cup {Append(q, x) : q \in shorter, x \in S}

\* State(messages=...)
FanState(messages) == [messages |-> messages]

\* the nodes in the order builder.add_node registers them
FanNodes == <<"A", "B", "C", "D", "E">>
FanNodeSet == {FanNodes[k] : k \in 1..Len(FanNodes)}

\* builder.add_edge: the targets of the static edges leaving `node`
FanEdges(node) ==
    CASE node = "A" -> {"B", "C", "D"}
      [] node \in {"B", "C", "D"} -> {"E"}
      [] node = "E" -> {}

\* node_a .. node_e: each returns its own name as the one new message
FanUpdate(node) == [messages |-> <<node>>]

\* operator.add on lists, the reducer of `messages`
OperatorAdd(old, new) == old \o new

\* a mutant of FanMerge: the updates are applied in the order the nodes
\* finished
FanMergeInFinishOrder(state, writes, order, k) ==
    LET RECURSIVE InOrder(_, _)
        InOrder(st, j) ==
            IF j > Len(order) THEN st
            ELSE InOrder(IF order[j] \in DOMAIN writes
                         THEN [st EXCEPT !.messages =
                                  OperatorAdd(@, writes[order[j]].messages)]
                         ELSE st,
                         j + 1)
    IN InOrder(state, 1)

\* the updates of one super-step reduced into the state, node by node in
\* registration order; `order`, the order in which the nodes of the run have
\* finished, plays no part
RECURSIVE FanMerge(_, _, _, _)
FanMerge(state, writes, order, k) ==
    IF k > Len(FanNodes) THEN state
    ELSE FanMerge(IF FanNodes[k] \in DOMAIN writes
                  THEN [state EXCEPT !.messages =
                           OperatorAdd(@, writes[FanNodes[k]].messages)]
                  ELSE state,
                  writes, order, k + 1)

FanInit ==
    /\ ChatIdle
    /\ SqlIdle
    /\ SupIdle
    /\ BotIdle
    /\ GreeterIdle
    /\ ReviewIdle
    /\ EmailIdle
    /\ AgentIdle
    /\ \E messages \in SeqsUpTo(InitialEntries, MaxInitial) :
           foValues = FanState(messages)
    /\ foTasks = {}
    /\ foWrites = << >>
    /\ foOrder = << >>
    /\ foReceived = << >>
    /\ foResponse = NoResponse
    /\ foPc = "start"

\* response = graph.invoke(initial_state): START -> A
FanInvoke ==
    /\ UNCHANGED <<reviewVars, emailVars, agentVars, chatVars, sqlVars,
                 supVars, botVars, greeterVars>>
    /\ foPc = "start"
    /\ foPc' = "running"
    /\ foTasks' = {"A"}
    /\ UNCHANGED <<foValues, foWrites, foOrder, foReceived, foResponse>>

\* a node of the current super-step runs: it prints the messages it received
\* and returns its update
FanNode(node) ==
    /\ foPc = "running"
    /\ node \in foTasks
    /\ foTasks' = foTasks \ {node}
    /\ foReceived' = (node :> foValues.messages) @@ foReceived
    /\ foWrites' = (node :> FanUpdate(node)) @@ foWrites
    /\ foOrder' = Append(foOrder, node)
    /\ UNCHANGED <<foValues, foResponse, foPc>>

node_a ==
    FanNode("A") /\ UNCHANGED <<reviewVars, emailVars, agentVars, chatVars, sqlVars,
                 supVars, botVars, greeterVars>>
node_b ==
    FanNode("B") /\ UNCHANGED <<reviewVars, emailVars, agentVars, chatVars, sqlVars,
                 supVars, botVars, greeterVars>>
node_c ==
    FanNode("C") /\ UNCHANGED <<reviewVars, emailVars, agentVars, chatVars, sqlVars,
                 supVars, botVars, greeterVars>>
node_d ==
    FanNode("D") /\ UNCHANGED <<reviewVars, emailVars, agentVars, chatVars, sqlVars,
                 supVars, botVars, greeterVars>>
node_e ==
    FanNode("E") /\ UNCHANGED <<reviewVars, emailVars, agentVars, chatVars, sqlVars,
                 supVars, botVars, greeterVars>>

\* the end of a super-step: every node of the step has finished, the updates
\* are reduced into the state and the static edges give the next step
FanEndWave ==
    /\ UNCHANGED <<reviewVars, emailVars, agentVars, chatVars, sqlVars,
                 supVars, botVars, greeterVars>>
    /\ foPc = "running"
    /\ foTasks = {}
    /\ LET merged == FanMerge(foValues, foWrites, foOrder, 1)
           next   == UNION {FanEdges(n) : n \in DOMAIN foWrites}
       IN /\ foValues' = merged
          /\ foTasks' = next
          /\ IF next = {}
             THEN /\ foResponse' = MkResponse(merged, << >>)
                  /\ foPc' = "done"
             ELSE UNCHANGED <<foResponse, foPc>>
    /\ foWrites' = << >>
    /\ UNCHANGED <<foOrder, foReceived>>

FanNext ==
    \/ FanInvoke
    \/ node_a
    \/ node_b
    \/ node_c
    \/ node_d
    \/ node_e
    \/ FanEndWave

SpecFanOut == FanInit /\ [][FanNext]_vars

-----------------------------------------------------------------------------
(* langgraph-essentials/4-memory.py: a one-node chat graph compiled with an *)
(* InMemorySaver, run turn by turn on two thread ids                        *)

\* turns one run of the script may start
MaxTurns == 2

\* times the script may end early and be started again
MaxCrashes == 1

\* config_1 and config_2
ChatConfigs == {[thread_id |-> "conversation-1"],
                [thread_id |-> "conversation-2"]}

UserMessages == {"What's my name?", "What is my age?"}


\* config["configurable"]["thread_id"]
ThreadId(config) == config.thread_id

ChatThreads == {ThreadId(c) : c \in ChatConfigs}

\* the response of model.invoke to a list of n messages
ChatReply(n) ==
    [type |-> "ai", content |-> "answer", tool_calls |-> << >>, history |-> n]

\* add_messages on messages with fresh ids: the update is appended
add_messages(left, right) == left \o right

\* a mutant of RestoredState: every invocation starts from an empty state
RestoredStateEmpty(log) == [messages |-> << >>]

\* the state an invocation starts from: the thread's latest checkpoint, or
\* the empty state for an unseen thread id
RestoredState(log) ==
    IF Latest(log) = None THEN [messages |-> << >>] ELSE Latest(log)[1].values

ChatInit ==
    /\ ReviewIdle
    /\ EmailIdle
    /\ AgentIdle
    /\ FanIdle
    /\ SqlIdle
    /\ SupIdle
    /\ BotIdle
    /\ GreeterIdle
    /\ ckLog = << >>
    /\ ckThread = ""
    /\ ckTasks = {}
    /\ ckWrites = << >>
    /\ ckResult = NoResponse
    /\ ckPc = "idle"
    /\ ckInputs = [t \in ChatThreads |-> << >>]
    /\ ckTurns = [t \in ChatThreads |-> 0]
    /\ ckRuns = << >>
    /\ ckSaved = {}
    /\ ckCrashes = << >>

\* run_turn up to graph.invoke({"messages": [HumanMessage(user_msg)]}, config):
\* the input is reduced into the restored state and saved, START -> agent.
\* A script started again passes the user messages it passed before.
run_turn ==
    /\ UNCHANGED <<reviewVars, emailVars, agentVars, fanVars, sqlVars,
                 supVars, botVars, greeterVars>>
    /\ ckPc = "idle"
    /\ \E config \in ChatConfigs, user_msg \in UserMessages :
         LET thread == ThreadId(config)
             turn   == ckTurns[thread] + 1
             log    == ThreadLog(ckLog, thread)
             values == [messages |->
                           add_messages(RestoredState(log).messages,
                                        <<HumanMessage(user_msg)>>)]
         IN /\ turn <= MaxTurns
            /\ turn <= Len(ckInputs[thread]) => user_msg = ckInputs[thread][turn]
            /\ ckLog' = (thread :> CheckpointWrite(log, values, {"agent"}, << >>))
                           @@ ckLog
            /\ ckThread' = thread
            /\ ckInputs' = [ckInputs EXCEPT ![thread] =
                              IF turn <= Len(@) THEN @ ELSE Append(@, user_msg)]
    /\ ckTasks' = {"agent"}
    /\ ckWrites' = << >>
    /\ ckPc' = "invoke"
    /\ UNCHANGED <<ckResult, ckTurns, ckRuns, ckSaved, ckCrashes>>

\* the turn of the running invocation
ChatTurn == <<ckThread, ckTurns[ckThread] + 1>>

\* agent_node: the model answers the system message plus the history
agent_node ==
    /\ UNCHANGED <<reviewVars, emailVars, agentVars, fanVars, sqlVars,
                 supVars, botVars, greeterVars>>
    /\ ckPc = "invoke"
    /\ "agent" \in ckTasks
    /\ LET state == RestoredState(ckLog[ckThread])
       IN ckWrites' = ("agent" :>
             [messages |-> <<ChatReply(1 + Len(state.messages))>>]) @@ ckWrites
    /\ ckTasks' = ckTasks \ {"agent"}
    /\ ckRuns' = (ChatTurn :> 1 + (IF ChatTurn \in DOMAIN ckRuns
                                   THEN ckRuns[ChatTurn] ELSE 0)) @@ ckRuns
    /\ UNCHANGED <<ckLog, ckThread, ckResult, ckPc, ckInputs, ckTurns, ckSaved,
                   ckCrashes>>

\* model.invoke raises: nothing catches the exception and the script ends
AgentNodeRaises ==
    /\ UNCHANGED <<reviewVars, emailVars, agentVars, fanVars, sqlVars,
                 supVars, botVars, greeterVars>>
    /\ ckPc = "invoke"
    /\ "agent" \in ckTasks
    /\ ckPc' = "ended"
    /\ ckCrashes' = Append(ckCrashes, "exception in agent_node")
    /\ ckTasks' = {}
    /\ UNCHANGED <<ckLog, ckThread, ckWrites, ckResult, ckInputs, ckTurns,
                   ckRuns, ckSaved>>

\* the end of the super-step: the update is reduced into the state, the
\* checkpoint written and, agent -> END, graph.invoke returns the state
ChatEndWave ==
    /\ UNCHANGED <<reviewVars, emailVars, agentVars, fanVars, sqlVars,
                 supVars, botVars, greeterVars>>
    /\ ckPc = "invoke"
    /\ ckTasks = {}
    /\ LET log    == ckLog[ckThread]
           state  == RestoredState(log)
           merged == [messages |-> add_messages(state.messages,
                                                ckWrites["agent"].messages)]
       IN /\ ckLog' = [ckLog EXCEPT ![ckThread] = CheckpointWrite(log, merged, {}, << >>)]
          /\ ckResult' = MkResponse(merged, << >>)
    /\ ckSaved' = ckSaved \cup {ChatTurn}
    /\ ckTurns' = [ckTurns EXCEPT ![ckThread] = @ + 1]
    /\ ckThread' = ""
    /\ ckWrites' = << >>
    /\ ckPc' = "idle"
    /\ UNCHANGED <<ckTasks, ckInputs, ckRuns, ckCrashes>>

ChatNext ==
    \/ run_turn
    \/ agent_node
    \/ AgentNodeRaises
    \/ ChatEndWave

SpecChat == ChatInit /\ [][ChatNext]_vars

\* the process dies after agent_node has returned and before the checkpoint
\* of the super-step is written; SpecRecovery follows the script through
\* such crashes
ChatCrash ==
    /\ UNCHANGED <<reviewVars, emailVars, agentVars, fanVars, sqlVars,
                 supVars, botVars, greeterVars>>
    /\ ckPc = "invoke"
    /\ ckTasks = {}
    /\ ckPc' = "ended"
    /\ ckCrashes' = Append(ckCrashes, "crash before the checkpoint write")
    /\ UNCHANGED <<ckLog, ckThread, ckTasks, ckWrites, ckResult, ckInputs,
                   ckTurns, ckRuns, ckSaved>>

\* the script is started again: memory = InMemorySaver() is a new, empty
\* store, and the turns start over
ChatRestart ==
    /\ UNCHANGED <<reviewVars, emailVars, agentVars, fanVars, sqlVars,
                 supVars, botVars, greeterVars>>
    /\ ckPc = "ended"
    /\ Len(ckCrashes) <= MaxCrashes
    /\ ckLog' = << >>
    /\ ckThread' = ""
    /\ ckWrites' = << >>
    /\ ckResult' = NoResponse
    /\ ckTurns' = [t \in ChatThreads |-> 0]
    /\ ckPc' = "idle"
    /\ UNCHANGED <<ckTasks, ckInputs, ckRuns, ckSaved, ckCrashes>>

RecoveryNext ==
    \/ run_turn
    \/ agent_node
    \/ ChatEndWave
    \/ ChatCrash
    \/ ChatRestart

SpecRecovery == ChatInit /\ [][RecoveryNext]_vars

-----------------------------------------------------------------------------
(* langgraph-essentials/8-application-sql-agent.py: the agent/tools loop    *)
(* compiled with an InMemorySaver, and run_app, which asks question after   *)
(* question on thread "1" and carries on after an exception                 *)

\* questions run_app may read
MaxQuestions == 2

\* tools steps one invocation may run
MaxToolSteps == 1

\* config of run_app
SqlThread == "1"

\* tools = [list_tables, get_schema, execute_sql]
SqlTools == {"list_tables", "get_schema", "execute_sql"}

\* a mutant of execute_sql: the handler returns the text of the exception
\* alone
execute_sql_bare_exception(failed) ==
    IF failed THEN <<"e">> ELSE <<"rows">>

\* execute_sql: db.run(query), or f"Error executing SQL: {e}" for the
\* exception e it raised; a string is the sequence of its parts, so that
\* what it starts with can be read
execute_sql(failed) ==
    IF failed THEN <<"Error", " executing SQL: ", "e">> ELSE <<"rows">>

\* the response of model_with_tools.invoke: one call of `tool`, or with
\* tool = "" the final answer; `step` tells the calls of a thread apart
SqlResponse(tool, step) ==
    [type |-> "ai", content |-> IF tool = "" THEN "answer" ELSE "",
     tool_calls |-> IF tool = "" THEN << >>
                    ELSE <<[name |-> tool, args |-> "", id |-> step]>>]

\* system_msg of agent_node, built anew on every call
system_msg ==
    [type |-> "system", content |-> "You are a helpful SQLite analyst",
     tool_calls |-> << >>]

\* agent_node, the list it passes to the model: the messages of the state
\* that are no SystemMessage, behind system_msg
AgentMessages(state) ==
    <<system_msg>> \o SelectSeq(state.messages, LAMBDA msg : msg.type # "system")

\* a mutant of AgentUpdate: the list sent to the model is returned whole
AgentUpdateWithPrompt(response) == <<system_msg, response>>

\* agent_node, its return value: {"messages": [response]}
AgentUpdate(response) == <<response>>

\* a mutant of should_continue: the run ends after every agent step
should_continue_always_end(state) == END

\* should_continue
should_continue(state) ==
    IF LastMessage(state.messages).tool_calls # << >> THEN "tools" ELSE END

\* a mutant of HandleException: the handler starts over with an empty
\* checkpointer
HandleExceptionResetsMemory(memory) == << >>

\* except Exception as e: print(f"Error: {e}"), which leaves `memory` alone
HandleException(memory) == memory

SqlInit ==
    /\ ReviewIdle
    /\ EmailIdle
    /\ AgentIdle
    /\ FanIdle
    /\ ChatIdle
    /\ SupIdle
    /\ BotIdle
    /\ GreeterIdle
    /\ sqLog = << >>
    /\ sqNode = ""
    /\ sqPc = "input"
    /\ sqAsked = 0
    /\ sqToolSteps = 0
    /\ sqErrors = << >>
    /\ sqSent = << >>

\* the state the current super-step reads
SqlState == RestoredState(ThreadLog(sqLog, SqlThread))

\* the super-step of `node` ends: its update is reduced into the state and
\* the checkpoint written; `goto` is the next node, END ends the stream
SqlStepDone(node, update, goto) ==
    /\ sqLog' = (SqlThread :>
                   CheckpointWrite(ThreadLog(sqLog, SqlThread),
                                   [messages |-> add_messages(SqlState.messages,
                                                              update)],
                                   {goto} \ {END}, << >>)) @@ sqLog
    /\ sqNode' = IF goto = END THEN "" ELSE goto
    /\ sqPc' = IF goto = END THEN "input" ELSE sqPc

\* a node of the running invocation raised: app.stream raises, the handler of
\* run_app prints the error and the loop reads the next input
SqlAbort(node) ==
    /\ sqLog' = HandleException(sqLog)
    /\ sqErrors' = Append(sqErrors,
                          [node |-> node,
                           seq  |-> Latest(sqLog[SqlThread])[1].seq])
    /\ sqNode' = ""
    /\ sqPc' = "input"
    /\ UNCHANGED <<sqAsked, sqToolSteps>>

\* run_app reads a question and calls app.stream({"messages": message}, config):
\* the input is reduced into the restored state and saved, START -> agent
SqlAsk ==
    /\ UNCHANGED <<reviewVars, emailVars, agentVars, fanVars, chatVars,
                 supVars, botVars, greeterVars>>
    /\ sqPc = "input"
    /\ sqAsked < MaxQuestions
    /\ sqAsked' = sqAsked + 1
    /\ sqToolSteps' = 0
    /\ sqPc' = "stream"
    /\ sqNode' = "agent"
    /\ sqLog' = (SqlThread :>
                   CheckpointWrite(ThreadLog(sqLog, SqlThread),
                                   [messages |->
                                      add_messages(SqlState.messages,
                                                   <<HumanMessage("question")>>)],
                                   {"agent"}, << >>)) @@ sqLog
    /\ UNCHANGED <<sqErrors, sqSent>>

\* run_app reads "exit"
SqlExit ==
    /\ UNCHANGED <<reviewVars, emailVars, agentVars, fanVars, chatVars,
                 supVars, botVars, greeterVars>>
    /\ sqPc = "input"
    /\ sqPc' = "exit"
    /\ UNCHANGED <<sqLog, sqNode, sqAsked, sqToolSteps, sqErrors, sqSent>>

\* agent_node sends system_msg and the stored messages to the model and
\* returns the model's response; should_continue routes
SqlAgentNode ==
    /\ UNCHANGED <<reviewVars, emailVars, agentVars, fanVars, chatVars,
                 supVars, botVars, greeterVars>>
    /\ sqPc = "stream"
    /\ sqNode = "agent"
    /\ \E tool \in IF sqToolSteps < MaxToolSteps THEN SqlTools \cup {""}
                   ELSE {""} :
         LET response == SqlResponse(tool, Len(SqlState.messages))
         IN SqlStepDone("agent", AgentUpdate(response),
                        should_continue(
                           [messages |-> add_messages(SqlState.messages,
                                                      AgentUpdate(response))]))
    /\ sqSent' = AgentMessages(SqlState)
    /\ UNCHANGED <<sqAsked, sqToolSteps, sqErrors>>

\* model_with_tools.invoke raises in agent_node
SqlAgentRaises ==
    /\ UNCHANGED <<reviewVars, emailVars, agentVars, fanVars, chatVars,
                 supVars, botVars, greeterVars>>
    /\ sqPc = "stream"
    /\ sqNode = "agent"
    /\ sqSent' = AgentMessages(SqlState)
    /\ SqlAbort("agent")

\* ToolNode(tools) runs the call of the last response and returns its result
\* as a ToolMessage; tools -> agent
SqlToolsNode ==
    /\ UNCHANGED <<reviewVars, emailVars, agentVars, fanVars, chatVars,
                 supVars, botVars, greeterVars>>
    /\ sqPc = "stream"
    /\ sqNode = "tools"
    /\ LET call == LastMessage(SqlState.messages).tool_calls[1]
       IN \E failed \in BOOLEAN :
            /\ failed => call.name = "execute_sql"
            /\ SqlStepDone("tools",
                           <<ToolMessage(IF call.name = "execute_sql"
                                         THEN execute_sql(failed)
                                         ELSE <<call.name>>, call)>>,
                           "agent")
    /\ sqToolSteps' = sqToolSteps + 1
    /\ UNCHANGED <<sqAsked, sqErrors, sqSent>>

\* list_tables or get_schema, which catch nothing, raise in the tools step
SqlToolsRaises ==
    /\ UNCHANGED <<reviewVars, emailVars, agentVars, fanVars, chatVars,
                 supVars, botVars, greeterVars>>
    /\ sqPc = "stream"
    /\ sqNode = "tools"
    /\ LastMessage(SqlState.messages).tool_calls[1].name # "execute_sql"
    /\ UNCHANGED sqSent
    /\ SqlAbort("tools")

SqlNext ==
    \/ SqlAsk
    \/ SqlExit
    \/ SqlAgentNode
    \/ SqlAgentRaises
    \/ SqlToolsNode
    \/ SqlToolsRaises

SpecSql == SqlInit /\ [][SqlNext]_vars

-----------------------------------------------------------------------------
(* supervisor_agent_langchain.py: a supervisor whose tools are sub-agents;  *)
(* the tool calls of one model response run in one super-step, and each     *)
(* manage_email call may suspend on the approval of send_email              *)

\* tool calls one response of the supervisor's model may hold
MaxCalls == 2

\* responses of the supervisor's model in one run of the script
MaxRounds == 2

\* tools=[schedule_event, manage_email]
SupTools == {"schedule_event", "manage_email"}

\* interrupt_on of the sub-agent behind each tool: create_calendar_event is
\* False, send_email is True
SubAgentInterruptOn == [schedule_event |-> FALSE, manage_email |-> TRUE]

\* guarded tool calls one response of a sub-agent's model may hold
SubCallCounts == {0, 1, 2}

\* a mutant of SupTaskPath: the tasks of one super-step share a path
SupTaskPathShared(k) == <<"tools", 0>>

\* the task that runs the k-th tool call; interrupt_.id is derived from it
SupTaskPath(k) == <<"tools", k>>

\* the value of a sub-agent's interrupt: n calls waiting for a decision
SubRequest(tool, n) ==
    [action_requests |-> [j \in 1..n |-> [name |-> tool, call |-> j]]]

\* resume_dict after the for loop: one reject decision per interrupt id
ResumeDict(interrupts) ==
    [id \in {interrupts[k].id : k \in 1..Len(interrupts)} |->
        [decisions |-> <<[type |-> "reject",
                          message |-> "Action rejected. Tool was not executed (security policy)."]>>]]

\* the tool calls of the running super-step that have no result yet
SupOpen == {k \in 1..Len(suCalls) : k \notin DOMAIN suWrites}

\* the stored interrupts of the task of call k
SupPendingOf(k) ==
    {j \in 1..Len(suPending) : suPending[j].id = <<SupTaskPath(k), suRounds>>}

SupInit ==
    /\ ReviewIdle
    /\ EmailIdle
    /\ AgentIdle
    /\ FanIdle
    /\ ChatIdle
    /\ SqlIdle
    /\ BotIdle
    /\ GreeterIdle
    /\ suMessages = << >>
    /\ suCalls = << >>
    /\ suWrites = << >>
    /\ suRan = {}
    /\ suRaised = << >>
    /\ suPending = << >>
    /\ suResume = None
    /\ suResult = NoResponse
    /\ suPc = "start"
    /\ suInvocations = 0
    /\ suRounds = 0

\* result = supervisor_agent.invoke({"messages": [HumanMessage(...)]}, config)
SupInvoke ==
    /\ UNCHANGED <<reviewVars, emailVars, agentVars, fanVars, chatVars, sqlVars,
                 botVars, greeterVars>>
    /\ suPc = "start"
    /\ suMessages' = <<HumanMessage("user_request")>>
    /\ suInvocations' = 1
    /\ suPc' = "model"
    /\ UNCHANGED <<suCalls, suWrites, suRan, suRaised, suPending, suResume,
                   suResult, suRounds>>

\* the supervisor's model answers, or asks for tool calls that form the next
\* super-step
SupModel ==
    /\ UNCHANGED <<reviewVars, emailVars, agentVars, fanVars, chatVars, sqlVars,
                 botVars, greeterVars>>
    /\ suPc = "model"
    /\ \E calls \in SeqsUpTo(SupTools, MaxCalls) :
         /\ suRounds >= MaxRounds => calls = << >>
         /\ suMessages' = Append(suMessages,
                                 [type |-> "ai", content |-> "",
                                  tool_calls |-> calls])
         /\ suCalls' = calls
         /\ IF calls = << >>
            THEN /\ suResult' = MkResponse(suMessages', << >>)
                 /\ suPc' = "returned"
                 /\ UNCHANGED suRounds
            ELSE /\ suPc' = "tools"
                 /\ suRounds' = suRounds + 1
                 /\ UNCHANGED suResult
    /\ suWrites' = << >>
    /\ suRan' = {}
    /\ UNCHANGED <<suRaised, suPending, suResume, suInvocations>>

\* the task of call k ends with a result
SupTaskDone(k, content) ==
    /\ suWrites' = [j \in DOMAIN suWrites \cup {k} |->
                      IF j = k THEN content ELSE suWrites[j]]
    /\ UNCHANGED <<suRaised, suPc>>

\* the sub-agent of call k suspends on n calls waiting for a decision
SupTaskSuspends(k, n) ==
    /\ suRaised' = Append(suRaised,
                          MkInterrupt(SupTaskPath(k), suRounds,
                                      SubRequest(suCalls[k], n)))
    /\ UNCHANGED <<suWrites, suPc>>

\* schedule_event / manage_email for the k-th tool call: the sub-agent is
\* invoked; on a resume the task runs again and its interrupt receives the
\* decisions stored under its id
SupToolTask(k) ==
    /\ UNCHANGED <<reviewVars, emailVars, agentVars, fanVars, chatVars, sqlVars,
                 botVars, greeterVars>>
    /\ suPc = "tools"
    /\ k \in SupOpen
    /\ k \notin suRan
    /\ suRan' = suRan \cup {k}
    /\ LET id == <<SupTaskPath(k), suRounds>> IN
       IF SupPendingOf(k) = {}
       THEN \E n \in SubCallCounts :
              IF n = 0 \/ ~SubAgentInterruptOn[suCalls[k]]
              THEN SupTaskDone(k, "answer of the sub-agent")
              ELSE SupTaskSuspends(k, n)
       ELSE IF suResume = None \/ id \notin DOMAIN suResume[1]
       THEN \* no decision for this interrupt: it is raised again
            LET j == CHOOSE j \in SupPendingOf(k) : TRUE IN
              /\ suRaised' = Append(suRaised, suPending[j])
              /\ UNCHANGED <<suWrites, suPc>>
       ELSE \E j \in SupPendingOf(k) :
              IF Len(suResume[1][id].decisions)
                    # Len(suPending[j].value.action_requests)
              THEN \* ValueError: decisions do not match the waiting calls
                   /\ suPc' = "error"
                   /\ UNCHANGED <<suWrites, suRaised>>
              ELSE \E again \in BOOLEAN :
                     IF again
                     THEN SupTaskSuspends(k, 1)
                     ELSE SupTaskDone(k, "the email was rejected")
    /\ UNCHANGED <<suMessages, suCalls, suPending, suResume, suResult,
                   suInvocations, suRounds>>

\* the end of the super-step of the tool calls: with interrupts raised the
\* invocation returns them in one list and the results so far stay with the
\* checkpoint; otherwise the tool messages are merged and the model is next
SupEndWave ==
    /\ UNCHANGED <<reviewVars, emailVars, agentVars, fanVars, chatVars, sqlVars,
                 botVars, greeterVars>>
    /\ suPc = "tools"
    /\ \A k \in SupOpen : k \in suRan
    /\ IF suRaised # << >>
       THEN /\ suPending' = suRaised
            /\ suResult' = MkResponse(suMessages, suRaised)
            /\ suPc' = "returned"
            /\ UNCHANGED <<suMessages, suCalls, suWrites>>
       ELSE /\ suMessages' = suMessages \o
                 [k \in 1..Len(suCalls) |->
                     [type |-> "tool", content |-> suWrites[k],
                      tool_calls |-> << >>]]
            /\ suPending' = << >>
            /\ suCalls' = << >>
            /\ suWrites' = << >>
            /\ suPc' = "model"
            /\ UNCHANGED suResult
    /\ suRaised' = << >>
    /\ suRan' = {}
    /\ UNCHANGED <<suResume, suInvocations, suRounds>>

\* if "__interrupt__" in result: build resume_dict and resume once
SupHandleInterrupts ==
    /\ UNCHANGED <<reviewVars, emailVars, agentVars, fanVars, chatVars, sqlVars,
                 botVars, greeterVars>>
    /\ suPc = "returned"
    /\ suInvocations = 1
    /\ HasInterrupt(suResult)
    /\ suResume' = Some(ResumeDict(suResult.interrupt))
    /\ suInvocations' = 2
    /\ suPc' = "tools"
    /\ UNCHANGED <<suMessages, suCalls, suWrites, suRan, suRaised, suPending,
                   suResult, suRounds>>

\* Step 4: print the final outcome
SupPrint ==
    /\ UNCHANGED <<reviewVars, emailVars, agentVars, fanVars, chatVars, sqlVars,
                 botVars, greeterVars>>
    /\ suPc = "returned"
    /\ suInvocations = 2 \/ ~HasInterrupt(suResult)
    /\ suPc' = "done"
    /\ UNCHANGED <<suMessages, suCalls, suWrites, suRan, suRaised, suPending,
                   suResume, suResult, suInvocations, suRounds>>

SupNext ==
    \/ SupInvoke
    \/ SupModel
    \/ \E k \in 1..MaxCalls : SupToolTask(k)
    \/ SupEndWave
    \/ SupHandleInterrupts
    \/ SupPrint

SpecSupervisor == SupInit /\ [][SupNext]_vars

-----------------------------------------------------------------------------
(* advanced_chat_bot_1.py: a chat graph that summarizes the history and     *)
(* removes all but the last two messages once it exceeds the threshold      *)

MESSAGE_THRESHOLD == 10

\* inputs one run of run_chatbot reads: the sixth brings the thread to 11
\* messages, the tenth to exactly MESSAGE_THRESHOLD after a summarization
MaxChats == 10

\* what the user may type at "Enter: "
BotInputs == {"hello", "tell me more", "exit", "Exit"}

\* a message of the state; add_messages gives every message an id
BotMessage(id, type, content) == [id |-> id, type |-> type, content |-> content]

\* RemoveMessage(id=msg.id)
RemoveMessage(id) == [id |-> id, type |-> "remove", content |-> ""]

\* the ids of a sequence of messages
MessageIds(messages) == {messages[k].id : k \in 1..Len(messages)}

\* a mutant of add_messages_by_id: the update is appended as it is, the way
\* operator.add merges
add_messages_appending(left, right) == left \o right

\* add_messages on messages with ids: an entry whose id is in the list
\* replaces that message, or deletes it if it is a RemoveMessage; an entry
\* with a new id is appended.  The graph only removes ids read from the state.
RECURSIVE add_messages_by_id(_, _)
add_messages_by_id(left, right) ==
    IF right = << >> THEN left
    ELSE LET m == Head(right)
             merged ==
                IF m.type = "remove"
                THEN SelectSeq(left, LAMBDA x : x.id # m.id)
                ELSE IF m.id \in MessageIds(left)
                THEN [k \in 1..Len(left) |->
                         IF left[k].id = m.id THEN m ELSE left[k]]
                ELSE Append(left, m)
         IN add_messages_by_id(merged, Tail(right))

\* a mutant of should_continue: the threshold itself already summarizes
bot_should_continue_at_threshold(messages) ==
    IF Len(messages) >= MESSAGE_THRESHOLD
    THEN "summarize_conversation" ELSE "generate_response"

\* should_continue of the chat bot
bot_should_continue(messages) ==
    IF Len(messages) > MESSAGE_THRESHOLD
    THEN "summarize_conversation" ELSE "generate_response"

\* messages_to_summarize
MessagesToSummarize(messages) == SelectSeq(messages, LAMBDA m : m.type # "system")

\* delete_messages: all of messages_to_summarize but the last two
DeleteMessages(messages) ==
    LET old == MessagesToSummarize(messages) IN
      [k \in 1..(IF Len(old) > 2 THEN Len(old) - 2 ELSE 0) |->
          RemoveMessage(old[k].id)]

\* new_summary: what the summarization model returns for summary_input,
\* told apart by the summary it extends and the messages it was shown
NewSummary(existing, messages) ==
    <<[extends |-> existing, covers |-> MessageIds(messages)]>>

BotInit ==
    /\ ReviewIdle
    /\ EmailIdle
    /\ AgentIdle
    /\ FanIdle
    /\ ChatIdle
    /\ SqlIdle
    /\ SupIdle
    /\ GreeterIdle
    /\ sbMessages = << >>
    /\ sbSummary = << >>
    /\ sbPc = "input"
    /\ sbTurns = 0
    /\ sbAppended = << >>
    /\ sbRemoved = {}
    /\ sbTrace = << >>

\* one turn of run_chatbot up to the router: "exit" leaves the loop,
\* anything else is invoked as a HumanMessage, which add_messages appends
\* with a fresh id before should_continue routes from START
BotInvoke ==
    /\ UNCHANGED <<reviewVars, emailVars, agentVars, fanVars, chatVars, sqlVars,
                 supVars, greeterVars>>
    /\ sbPc = "input"
    /\ sbTurns < MaxChats
    /\ \E user_input \in BotInputs :
         IF Lower(user_input) = "exit"
         THEN /\ sbPc' = "exited"
              /\ UNCHANGED <<sbMessages, sbTurns, sbAppended, sbTrace>>
         ELSE LET human == BotMessage(Len(sbAppended) + 1, "human", user_input)
              IN /\ sbMessages' = add_messages_by_id(sbMessages, <<human>>)
                 /\ sbAppended' = Append(sbAppended, human)
                 /\ sbTurns' = sbTurns + 1
                 /\ sbTrace' = << >>
                 /\ sbPc' = IF bot_should_continue(sbMessages')
                                  = "summarize_conversation"
                            THEN "summarize" ELSE "call_model"
    /\ UNCHANGED <<sbSummary, sbRemoved>>

\* the summarize node and its edge to call_model
summarize_history ==
    /\ UNCHANGED <<reviewVars, emailVars, agentVars, fanVars, chatVars, sqlVars,
                 supVars, greeterVars>>
    /\ sbPc = "summarize"
    /\ LET delete_messages == DeleteMessages(sbMessages) IN
         /\ sbSummary' = NewSummary(sbSummary, MessagesToSummarize(sbMessages))
         /\ sbMessages' = add_messages_by_id(sbMessages, delete_messages)
         /\ sbRemoved' = sbRemoved \cup MessageIds(delete_messages)
    /\ sbTrace' = Append(sbTrace, "summarize")
    /\ sbPc' = "call_model"
    /\ UNCHANGED <<sbTurns, sbAppended>>

\* the call_model node and its edge to END: the response is appended and the
\* invocation returns to run_chatbot
call_model_node ==
    /\ UNCHANGED <<reviewVars, emailVars, agentVars, fanVars, chatVars, sqlVars,
                 supVars, greeterVars>>
    /\ sbPc = "call_model"
    /\ LET response == BotMessage(Len(sbAppended) + 1, "ai", "response")
       IN /\ sbMessages' = add_messages_by_id(sbMessages, <<response>>)
          /\ sbAppended' = Append(sbAppended, response)
    /\ sbTrace' = Append(sbTrace, "call_model")
    /\ sbPc' = "input"
    /\ UNCHANGED <<sbSummary, sbTurns, sbRemoved>>

BotNext ==
    \/ BotInvoke
    \/ summarize_history
    \/ call_model_node

SpecBot == BotInit /\ [][BotNext]_vars

-----------------------------------------------------------------------------
(* langgraph-essentials/1-nodes.py: START -> greeter -> END on a State      *)
(* whose `messages` has no reducer                                          *)

\* new_message of greeting_node
GreeterMessage == "Hello from the greeting node!"

GreeterInit ==
    /\ ReviewIdle
    /\ EmailIdle
    /\ AgentIdle
    /\ FanIdle
    /\ ChatIdle
    /\ SqlIdle
    /\ SupIdle
    /\ BotIdle
    /\ \E messages \in SeqsUpTo(InitialEntries, MaxInitial) :
         grInitial = [messages |-> messages]
    /\ grValues = [messages |-> << >>]
    /\ grResponse = NoResponse
    /\ grPc = "start"

\* response = graph.invoke(initial_state): the input is written to the
\* channels and START -> greeter schedules the node
GreeterInvoke ==
    /\ UNCHANGED <<reviewVars, emailVars, agentVars, fanVars, chatVars, sqlVars,
                 supVars, botVars>>
    /\ grPc = "start"
    /\ grValues' = Overwrite(grValues, grInitial)
    /\ grPc' = "greeter"
    /\ UNCHANGED <<grInitial, grResponse>>

\* greeting_node, and greeter -> END: the run returns the merged state
greeting_node ==
    /\ UNCHANGED <<reviewVars, emailVars, agentVars, fanVars, chatVars, sqlVars,
                 supVars, botVars>>
    /\ grPc = "greeter"
    /\ grValues' = Overwrite(grValues, [messages |-> <<GreeterMessage>>])
    /\ grResponse' = MkResponse(grValues', << >>)
    /\ grPc' = "done"
    /\ UNCHANGED grInitial

GreeterNext ==
    \/ GreeterInvoke
    \/ greeting_node

\* the scripts whose State has no reducer: 1-nodes.py, or the review graph
\* of 5-human-in-the-loop.py
SpecOverwrite ==
    (GreeterInit \/ ReviewInit) /\ [][GreeterNext \/ ReviewNext]_vars

-----------------------------------------------------------------------------
(* Properties of the review workflow (SpecReview) *)

\* C1: an invocation whose state has status "pending" suspends in the review
\* step with one request that lists the options; resuming the same thread
\* with "approve" re-enters review, runs the approve step, and the run ends
\* with status "approved" and no pending suspension.
C1_ApproveScenario ==
    /\ (rvPc = "returned_to_loop" /\ rvInputs = << >>) =>
          /\ HasInterrupt(rvResponse)
          /\ Len(rvResponse.interrupt) = 1
          /\ rvResponse.interrupt[1].id[1] = "review"
          /\ rvResponse.interrupt[1].value.options
                = <<"approve", "reject", "edit">>
          /\ rvResponse.interrupt[1].value.details = rvValues.proposal_text
          /\ rvResponse.values.status = "pending"
          /\ rvInterrupts = rvResponse.interrupt
          /\ rvTrace = <<"review">>
    /\ (rvInputs = <<"approve">> /\ rvPc \in {"returned_to_loop", "done"}) =>
          /\ ~HasInterrupt(rvResponse)
          /\ rvResponse.values.status = "approved"
          /\ rvValues = rvResponse.values
          /\ rvInterrupts = << >>
          /\ rvNext = END
          /\ rvTrace = <<"review", "review", "approve">>

C1_Witness ==
    /\ rvPc = "done"
    /\ rvInputs = <<"approve">>
    /\ rvValues.status = "approved"

\* C3: a resumed step is re-entered from its first line: the code before
\* interrupt() has run once for every suspension of the step and once more
\* for every resume of it, and a step is resumed only after it suspended.
C3_ReentryFromStart ==
    \A n \in InterruptingNodes :
        /\ rvEntered[n] = rvSuspended[n] + rvResumed[n]
        /\ rvResumed[n] <= rvSuspended[n]
        /\ rvSuspended[n] <= rvResumed[n] + 1

C3_Witness ==
    /\ rvResumed["review"] = 2
    /\ rvResumed["edit"] = 1
    /\ rvEntered["review"] = 4

\* C4 as stated: resuming does not increase the number of times the code
\* before the suspension point has been performed.
C4_NoRepeatOnResume ==
    [][(rvPc = "running" /\ rvResume # NoResume) => rvEntered' = rvEntered]_vars

\* C4 as amended: every resume performs the code before the suspension point
\* of the resumed step exactly once more (the entry print is repeated), while
\* the state record changes only by the update the step returns after the
\* suspension point.
C4_ResumeRepeatsPrefix ==
    [][(rvPc = "running" /\ rvResume # NoResume) =>
          /\ rvNext \in InterruptingNodes
          /\ rvEntered' = [rvEntered EXCEPT ![rvNext] = @ + 1]
          /\ rvValues' = IF rvNext = "edit"
                         THEN [rvValues EXCEPT !.proposal_text = rvResume]
                         ELSE rvValues]_vars

C4_Witness ==
    /\ rvResumed["review"] = 1
    /\ rvSuspended["review"] = 1
    /\ rvEntered["review"] = 2

-----------------------------------------------------------------------------
(* Properties of the email workflow (SpecEmail) *)

\* the threads whose invocation is not running
Returned == {t \in DOMAIN emThreads : t # emThread}

\* the queue entries of thread t
QueueItems(t) ==
    {k \in 1..Len(needs_approval) : needs_approval[k].thread_id = t}

\* human_review written to use decision D directly, and the rest of the run
\* from the state the review step starts in
ReviewWithoutSuspending(state, D) ==
    LET final == [state EXCEPT !.human_decision = Some(D)]
    IN [values |-> final, sent |-> IF D = "approve" THEN 1 ELSE 0]

\* C2: resume transparency of human_review: a thread that suspended and was
\* resumed with decision D ends in the state of a run in which the step uses
\* D without suspending, taken from the state the thread was suspended in;
\* on the resume the step is entered once more, receives D and raises no
\* interrupt again.
C2_ResumeTransparency ==
    \A t \in Returned :
        emDecisions[t] # << >> =>
            /\ Cardinality(QueueItems(t)) = 1
            /\ Len(emDecisions[t]) = 1
            /\ \A k \in QueueItems(t) :
                 LET direct == ReviewWithoutSuspending(
                                   needs_approval[k].result.values,
                                   emDecisions[t][1])
                 IN /\ emThreads[t].values = direct.values
                    /\ emRuns[t]["send_reply"] = direct.sent
            /\ emThreads[t].interrupts = << >>
            /\ emThreads[t].next = {}
            /\ emRuns[t]["human_review"] = 2

C2_Witness ==
    /\ emPc = "finished"
    /\ \E t \in DOMAIN emThreads :
         /\ emDecisions[t] = <<"approve">>
         /\ emThreads[t].values.human_decision = Some("approve")
         /\ emRuns[t]["human_review"] = 2
         /\ emRuns[t]["send_reply"] = 1

\* C7: send_reply runs for an email only if the email was routed past review
\* or the decision recorded for it is exactly "approve"; a resume with any
\* other value ends the run without send_reply.
C7_SendOnlyWhenApproved ==
    \A t \in DOMAIN emThreads :
        /\ emRuns[t]["send_reply"] <= 1
        /\ emRuns[t]["send_reply"] = 1 =>
              \/ emRuns[t]["human_review"] = 0
              \/ /\ emDecisions[t] = <<"approve">>
                 /\ emThreads[t].values.human_decision = Some("approve")
        /\ (t \in Returned /\ emDecisions[t] # << >>
              /\ emDecisions[t][1] # "approve") =>
              /\ emRuns[t]["send_reply"] = 0
              /\ emThreads[t].next = {}
              /\ emThreads[t].interrupts = << >>

C7_Witness ==
    /\ emPc = "finished"
    /\ \E t \in DOMAIN emThreads :
         /\ emDecisions[t] = <<"Approve">>
         /\ emThreads[t].values.human_decision = Some("Approve")
         /\ emRuns[t]["send_reply"] = 0

\* the classification stored for thread t
Priority(t) == ClassificationGet(emThreads[t].values, "priority")
Intent(t) == ClassificationGet(emThreads[t].values, "intent")

\* the first invocation of thread t has returned and nobody resumed it yet
FirstRunReturned(t) == t \in Returned /\ emDecisions[t] = << >>

\* thread t is suspended waiting for approval, no reply sent
SuspendedForApproval(t) ==
    /\ Len(emThreads[t].interrupts) = 1
    /\ emThreads[t].interrupts[1].id[1] = "human_review"
    /\ emThreads[t].values.draft_response # None
    /\ emRuns[t]["send_reply"] = 0

\* thread t was sent without a suspension
SentAutomatically(t) ==
    /\ emThreads[t].interrupts = << >>
    /\ emRuns[t]["human_review"] = 0
    /\ emRuns[t]["send_reply"] = 1

CurrentWave == emTasks \cup DOMAIN emWrites

\* C9: the super-step after classification holds bug_tracking and
\* search_documentation together for intent "bug" and search_documentation
\* alone for every other intent; so ticket_id is never set for another
\* intent, and once an invocation has returned it is set iff the intent is
\* "bug".
C9_BugFanOut ==
    /\ (emThread # 0 /\ CurrentWave \cap
                           {"bug_tracking", "search_documentation"} # {}) =>
          CurrentWave = IF Intent(emThread) = "bug"
                        THEN {"bug_tracking", "search_documentation"}
                        ELSE {"search_documentation"}
    /\ \A t \in DOMAIN emThreads :
          /\ emThreads[t].values.ticket_id # None => Intent(t) = "bug"
          /\ Intent(t) # "bug" => emRuns[t]["bug_tracking"] = 0
          /\ emRuns[t]["write_response"] = 1 =>
               /\ emRuns[t]["search_documentation"] = 1
               /\ emRuns[t]["bug_tracking"] = IF Intent(t) = "bug" THEN 1 ELSE 0
          /\ t \in Returned =>
               (emThreads[t].values.ticket_id # None <=> Intent(t) = "bug")

C9_Witness ==
    /\ emPc = "finished"
    /\ \E t \in DOMAIN emThreads :
         /\ Intent(t) = "bug"
         /\ emThreads[t].values.ticket_id = Some(<<"BUG", t>>)
         /\ emRuns[t]["bug_tracking"] = 1
         /\ emRuns[t]["search_documentation"] = 1

\* C10: when bug_tracking and search_documentation are both scheduled,
\* write_response is not ready before both have run and their updates are
\* in the state; it runs once per run and reads both ticket_id and
\* search_results, in whichever order the two steps ran.
C10_FanInBarrier ==
    /\ (Ready("write_response") /\ Intent(emThread) = "bug") =>
          /\ emTasks = {"write_response"}
          /\ emRuns[emThread]["bug_tracking"] = 1
          /\ emRuns[emThread]["search_documentation"] = 1
          /\ EmailState.ticket_id # None
          /\ EmailState.search_results # None
    /\ \A t \in DOMAIN emThreads :
          /\ emRuns[t]["write_response"] <= 1
          /\ t \in Returned => emRuns[t]["write_response"] = 1
          /\ (emObserved[t] # None /\ Intent(t) = "bug") =>
                /\ emObserved[t][1].ticket_id = Some(<<"BUG", t>>)
                /\ emObserved[t][1].search_results # None
                /\ emObserved[t][1].search_results
                      = emThreads[t].values.search_results

C10_Witness ==
    \E t \in DOMAIN emThreads :
        /\ Intent(t) = "bug"
        /\ emObserved[t] # None
        /\ emObserved[t][1].ticket_id # None
        /\ emObserved[t][1].search_results = Some(<<rag_search>>)
        /\ emRuns[t]["write_response"] = 1

-----------------------------------------------------------------------------
(* Properties of the tool-approval agent (SpecAgent) *)

RejectFeedback == "Ask for more budget details first."

\* the decisions that let a tool call run
Approvals == SelectSeq(agDecisions, LAMBDA d : d \in {"approve", "edit"})

\* ids of the calls answered by the reviewer's rejection
RejectedIds ==
    {agMessages[k].tool_call_id :
        k \in {j \in 1..Len(agMessages) :
                  /\ agMessages[j].type = "tool"
                  /\ agMessages[j].content = RejectFeedback}}

\* C5: the reject loop.  A resume with "reject" and a feedback message runs
\* no tool and routes back to the model step with the feedback in the
\* history; when the model then produces a new tool call the run suspends a
\* second time; resuming that suspension with "approve" executes the tool,
\* and the run that ends after these two decisions has been suspended
\* exactly twice and has executed the tool once, for the second call.
C5_RejectLoop ==
    /\ agDecisions = <<"reject">> =>
          /\ agExecuted = << >>
          /\ "tools" \notin {agTrace[k] : k \in 1..Len(agTrace)}
    /\ (agDecisions = <<"reject">> /\ agPc = "running"
          /\ agTrace = <<"model", "after_model", "after_model">>) =>
          /\ agNext = "model"
          /\ LastMessage(agMessages).type = "tool"
          /\ LastMessage(agMessages).content = RejectFeedback
          /\ agInterrupts = << >>
    /\ (agDecisions = <<"reject">> /\ agPc = "running"
          /\ agTrace = <<"model", "after_model", "after_model", "model">>
          /\ LastMessage(agMessages).tool_calls # << >>) =>
          agNext = "after_model"
    /\ (agDecisions = <<"reject">> /\ agPc = "loop") =>
          IF LastAI(agMessages).tool_calls # << >>
          THEN /\ HasInterrupt(agResult)
               /\ agSuspended = 2
               /\ agTrace = <<"model", "after_model", "after_model", "model",
                              "after_model">>
               /\ agResult.interrupt[1].value.action_requests[1].name
                     = "send_email"
          ELSE ~HasInterrupt(agResult) /\ agSuspended = 1
    /\ (agDecisions = <<"reject", "approve">> /\ agPc \in {"loop", "done"}
          /\ ~HasInterrupt(agResult)) =>
          /\ agSuspended = 2
          /\ Len(agExecuted) = 1
          /\ agExecuted[1].id \notin RejectedIds
          /\ agNext = END
          /\ agInterrupts = << >>
          /\ agTrace = <<"model", "after_model", "after_model", "model",
                         "after_model", "after_model", "tools", "model",
                         "after_model">>

C5_Witness ==
    /\ agPc = "done"
    /\ agDecisions = <<"reject", "approve">>
    /\ agSuspended = 2
    /\ Len(agExecuted) = 1

\* C6: send_email, configured in interrupt_on, is executed only for a call
\* the reviewer approved or edited: the executions match the approve/edit
\* decisions in order (an edited call runs with the edited arguments), there
\* are never more executions than such decisions, and no rejected call is
\* ever executed.
C6_GuardedToolNeedsApproval ==
    /\ Len(agExecuted) <= Len(Approvals)
    /\ \A j \in 1..Len(agExecuted) :
          /\ agExecuted[j].args = IF Approvals[j] = "edit"
                                  THEN EditedArgs
                                  ELSE DraftArgs
          /\ agExecuted[j].id \notin RejectedIds
    /\ \A j, k \in 1..Len(agExecuted) :
          agExecuted[j].id = agExecuted[k].id => j = k

C6_Witness ==
    /\ agDecisions = <<"edit", "reject", "approve">>
    /\ Len(agExecuted) = 2
    /\ agExecuted[1].args = EditedArgs
    /\ RejectedIds # {}

-----------------------------------------------------------------------------
(* Properties of the static-edges graph (SpecFanOut) *)

\* the messages the graph was invoked with
FanInitialMessages == foReceived["A"]

\* C11: B, C and D run in one super-step and each appends one token to
\* `messages`; whatever order they finish in, the merged value holds their
\* tokens in registration order B, C, D after the earlier entries, E receives
\* that value, and the run that starts from ['Initial String'] returns
\* ['Initial String', 'A', 'B', 'C', 'D', 'E'].
C11_DeterministicMerge ==
    /\ "E" \in DOMAIN foReceived =>
          /\ {"B", "C", "D"} \subseteq DOMAIN foReceived
          /\ \A n \in {"B", "C", "D"} :
                foReceived[n] = FanInitialMessages \o <<"A">>
          /\ foReceived["E"] = FanInitialMessages \o <<"A", "B", "C", "D">>
    /\ (foTasks = {"E"} /\ foPc = "running") =>
          foValues.messages = FanInitialMessages \o <<"A", "B", "C", "D">>
    /\ foPc = "done" =>
          /\ foResponse.kind = "final"
          /\ foResponse.values.messages =
                FanInitialMessages \o <<"A", "B", "C", "D", "E">>
          /\ FanInitialMessages = <<"Initial String">> =>
                foResponse.values.messages =
                   <<"Initial String", "A", "B", "C", "D", "E">>

\* the script's run has ended after D, C and B finished in that order
C11_Witness ==
    /\ foPc = "done"
    /\ foOrder = <<"A", "D", "C", "B", "E">>
    /\ FanInitialMessages = <<"Initial String">>
    /\ foResponse.values.messages = <<"Initial String", "A", "B", "C", "D", "E">>

-----------------------------------------------------------------------------
(* Properties of the email batch as main runs it (SpecEmailBatch) *)

\* C12: a step of an invocation or of a resume changes the checkpoint (state,
\* next nodes, pending interrupts) of no thread but the one it is addressed to,
\* and when process_review_queue resumes a queued item, after the later
\* emails of the batch and the earlier items of the queue ran on their own
\* threads, the item's thread still holds the request and the state that the
\* suspended invocation returned.
C12_SessionIsolation ==
    [][/\ \A t \in DOMAIN emThreads :
            (t # emThread /\ t # emThread') =>
               /\ t \in DOMAIN emThreads'
               /\ emThreads'[t] = emThreads[t]
       /\ (emPc = "review" /\ emPc' = "review_invoke") =>
            LET item == needs_approval[emQueuePos]
            IN /\ emThread' = item.thread_id
               /\ emThreads[item.thread_id].interrupts = item.result.interrupt
               /\ emThreads[item.thread_id].values = item.result.values
               /\ emTasks' = {"human_review"}]_vars

\* the first email's thread is being resumed after the second email ran to
\* its own suspension on another thread
C12_Witness ==
    /\ emPc = "review_invoke"
    /\ emThread = 1
    /\ emThreads[1].interrupts # << >>
    /\ 2 \in DOMAIN emThreads
    /\ emThreads[2].interrupts # << >>
    /\ emThreads[2].values # emThreads[1].values

-----------------------------------------------------------------------------
(* Properties of the chat graph and its checkpoints (SpecChat) *)

\* the messages a thread holds after k completed turns: the user message and
\* the model's answer of each turn, in arrival order
ChatHistory(t, k) ==
    [i \in 1..(2 * k) |-> IF i % 2 = 1
                          THEN HumanMessage(ckInputs[t][(i + 1) \div 2])
                          ELSE ChatReply(i)]

\* the messages of the latest checkpoint of thread t
ThreadMessages(t) == Latest(ThreadLog(ckLog, t))[1].values.messages

\* C13: a thread that has completed k turns holds exactly the 2k messages of
\* these turns in arrival order; a thread id never invoked has no checkpoint;
\* the invocation of turn k + 1 starts from the 2k messages of the latest
\* checkpoint with the incoming message on top, which for an unseen thread id
\* is the input alone.
C13_StateAccumulates ==
    \A t \in ChatThreads :
       LET k == ckTurns[t]
       IN IF t = ckThread
          THEN /\ ThreadMessages(t) =
                     ChatHistory(t, k) \o <<HumanMessage(ckInputs[t][k + 1])>>
               /\ k = 0 => ThreadMessages(t) = <<HumanMessage(ckInputs[t][1])>>
          ELSE IF k = 0
               THEN ThreadLog(ckLog, t) = << >>
               ELSE /\ Len(ThreadMessages(t)) = 2 * k
                    /\ ThreadMessages(t) = ChatHistory(t, k)

\* thread 1 has completed two turns and thread 2 one, as after the script's
\* fourth call of run_turn
C13_Witness ==
    /\ ckPc = "idle"
    /\ ckTurns["conversation-1"] = 2
    /\ ckTurns["conversation-2"] = 1
    /\ Len(ThreadMessages("conversation-1")) = 4
    /\ Len(ThreadMessages("conversation-2")) = 2
    /\ ckResult.values.messages = ThreadMessages("conversation-2")

\* C14: in the log of every thread the sequence numbers strictly increase in
\* write order, latest() returns the entry with the highest sequence number,
\* and latest() of a thread never written is None.
C14_CheckpointMonotonicity ==
    \A t \in ChatThreads :
       LET log == ThreadLog(ckLog, t)
       IN /\ \A i, j \in 1..Len(log) : i < j => log[i].seq < log[j].seq
          /\ log # << >> =>
                /\ Latest(log) # None
                /\ \A i \in 1..Len(log) : log[i].seq <= Latest(log)[1].seq
          /\ (ckTurns[t] = 0 /\ t # ckThread) => Latest(log) = None

\* thread 1 holds the four checkpoints of two turns while thread 2 was never
\* written
C14_Witness ==
    /\ Len(ThreadLog(ckLog, "conversation-1")) = 4
    /\ Latest(ThreadLog(ckLog, "conversation-1"))[1].seq = 4
    /\ Latest(ThreadLog(ckLog, "conversation-2")) = None

-----------------------------------------------------------------------------
(* Properties of the checkpoint log of the email batch (SpecEmailBatch) *)

\* C15: a write adds one entry at the end of one thread's log and changes or
\* removes no entry written earlier, so every checkpoint stays readable with
\* its original content through all later invocations, suspensions and
\* resumes of the batch.
C15_AppendOnlyLog ==
    [][\A t \in DOMAIN emLog :
          LET old == emLog[t]
              new == ThreadLog(emLog', t)
          IN /\ Len(old) <= Len(new)
             /\ Len(new) <= Len(old) + 1
             /\ SubSeq(new, 1, Len(old)) = old
             /\ Len(new) = Len(old) + 1 => t = emThread \/ t = emThread']_vars

\* the first email's thread was suspended and resumed: the checkpoint that
\* holds the pending request is still in its log, below the checkpoint of
\* the resumed human_review step, next to the log of the second thread
C15_Witness ==
    /\ {1, 2} \subseteq DOMAIN emLog
    /\ \E i \in 1..Len(emLog[1]) :
          /\ emLog[1][i].pending # << >>
          /\ i < Len(emLog[1])
          /\ emLog[1][i + 1].pending = << >>
          /\ emLog[1][i + 1].values.human_decision # None
    /\ Len(emLog[2]) > 1

-----------------------------------------------------------------------------
(* Properties of the SQL agent and run_app (SpecSql) *)

\* C16: when a step raises, the invocation is aborted and the checkpointer is
\* left as it was: the thread's latest checkpoint is the one written after
\* the last completed super-step (its next node is the step that failed, and
\* its messages end before that step's update); the next question on the
\* thread starts from the messages of that checkpoint.
C16_AbortKeepsLastCheckpoint ==
    [][/\ Len(sqErrors') > Len(sqErrors) =>
            LET latest == Latest(ThreadLog(sqLog', SqlThread))[1]
            IN /\ sqPc' = "input"
               /\ sqNode' = ""
               /\ sqLog' = sqLog
               /\ latest.next = {sqNode}
               /\ latest.seq = sqErrors'[Len(sqErrors')].seq
               /\ LastMessage(latest.values.messages).type \in
                     IF sqNode = "agent" THEN {"human", "tool"} ELSE {"ai"}
       /\ (sqPc = "input" /\ sqPc' = "stream") =>
            LET before == ThreadLog(sqLog, SqlThread)
                after  == ThreadLog(sqLog', SqlThread)
            IN /\ SubSeq(after, 1, Len(before)) = before
               /\ Latest(after)[1].values.messages =
                     (IF before = << >> THEN << >>
                      ELSE Latest(before)[1].values.messages)
                     \o <<HumanMessage("question")>>
               /\ sqNode' = "agent"]_vars

\* the tools step of the first question raised after the agent step had
\* completed; the second question ran to its answer on top of the checkpoint
\* of that agent step
C16_Witness ==
    /\ sqPc = "input"
    /\ sqAsked = 2
    /\ Len(sqErrors) = 1
    /\ sqErrors[1].node = "tools"
    /\ LET log == sqLog[SqlThread]
           n   == sqErrors[1].seq
       IN /\ log[n].next = {"tools"}
          /\ Len(log) > n + 1
          /\ log[n + 1].values.messages =
                Append(log[n].values.messages, HumanMessage("question"))
          /\ Latest(log)[1].next = {}

-----------------------------------------------------------------------------
(* Properties of the chat script run again after an early end (SpecRecovery) *)

\* an invocation starts
ChatInvokes == ckPc = "idle" /\ ckPc' = "invoke"

\* agent_node runs
ChatAgentRuns == ckRuns' # ckRuns

\* the turns of thread t whose super-step was checkpointed
SavedTurns(t) == {k \in 1..MaxTurns : <<t, k>> \in ckSaved}

\* C17 as stated: after a crash between agent_node's return and the
\* checkpoint write, the session invoked again with the same inputs has lost
\* the progress of one super-step at most (it starts from the messages of
\* every turn checkpointed before), and agent_node does not run again for a
\* turn that was checkpointed.
C17_CrashLosesOneWave ==
    [][/\ ChatInvokes =>
            Len(RestoredState(ThreadLog(ckLog, ckThread')).messages)
               >= 2 * Cardinality(SavedTurns(ckThread'))
       /\ ChatAgentRuns => ChatTurn \notin ckSaved]_vars

\* C17 as amended: the checkpoints live in the memory of the process.  While
\* the script runs, an invocation starts from the messages of the turns it
\* has completed and agent_node never runs again for a checkpointed turn; the
\* script started again after a crash has an empty checkpointer, starts
\* every thread from the input alone and runs agent_node again for the turns
\* checkpointed before the crash.
C17_CrashLosesInMemoryLog ==
    [][/\ (ckPc = "ended" /\ ckPc' = "idle") =>
            /\ ckLog' = << >>
            /\ \A t \in ChatThreads : ckTurns'[t] = 0
       /\ ChatInvokes =>
            /\ RestoredState(ThreadLog(ckLog, ckThread')).messages =
                  ChatHistory(ckThread', ckTurns[ckThread'])
            /\ ckTurns[ckThread'] = 0 =>
                  /\ Len(ckLog'[ckThread']) = 1
                  /\ Len(ckLog'[ckThread'][1].values.messages) = 1
       /\ (ChatAgentRuns /\ ckCrashes = << >>) => ChatTurn \notin ckSaved
       /\ (ChatAgentRuns /\ ChatTurn \in ckSaved) =>
            /\ ckCrashes # << >>
            /\ Len(RestoredState(ckLog[ckThread]).messages) =
                  2 * ckTurns[ckThread] + 1]_vars

\* the script crashed before the checkpoint write of the second turn of
\* thread 1 and was started again: agent_node has run a second time for the
\* first turn, which had been checkpointed, on the input alone
C17_Witness ==
    /\ ckCrashes = <<"crash before the checkpoint write">>
    /\ ckPc = "invoke"
    /\ ckThread = "conversation-1"
    /\ ckTurns["conversation-1"] = 0
    /\ <<"conversation-1", 1>> \in ckSaved
    /\ ckRuns[<<"conversation-1", 1>>] = 2
    /\ ckRuns[<<"conversation-1", 2>>] = 1
    /\ Len(ThreadMessages("conversation-1")) = 1

-----------------------------------------------------------------------------
(* Properties of what an invocation returns (SpecReview) *)

\* C19: whenever graph.invoke has returned to handle_interrupts, the response
\* is either the final state of a run that reached END, with no
\* "__interrupt__" key and nothing pending in the thread, or it holds an
\* "__interrupt__" list that is not empty and equals the pending requests of
\* the thread, so that response["__interrupt__"][0] has an id and a value
C19_NonEmptyPendingList ==
    rvPc \in {"returned_to_loop", "exited", "done"} =>
       /\ rvResponse # NoResponse
       /\ IF HasInterrupt(rvResponse)
          THEN /\ Len(rvResponse.interrupt) >= 1
               /\ rvResponse.interrupt = rvInterrupts
               /\ DOMAIN rvResponse.interrupt[1] = {"id", "value"}
               /\ rvNext \in InterruptingNodes
          ELSE /\ rvResponse.kind = "final"
               /\ rvInterrupts = << >>
               /\ rvNext = END

\* a resumed invocation has suspended again, in edit_node, and a second
\* "__interrupt__" list is in front of the loop
C19_Witness ==
    /\ rvPc = "returned_to_loop"
    /\ HasInterrupt(rvResponse)
    /\ Len(rvInputs) = 1
    /\ rvResponse.interrupt[1].id[1] = "edit"

-----------------------------------------------------------------------------
(* Properties of the supervisor's tool calls (SpecSupervisor) *)

\* the ids of a list of interrupts
InterruptIds(interrupts) == {interrupts[k].id : k \in 1..Len(interrupts)}

\* the invocation returns with an "__interrupt__" list
SupReturnsInterrupts == suPc = "tools" /\ suPc' = "returned"

\* the super-step of the tool calls completes after it had suspended
SupWaveCompletes == suPc = "tools" /\ suPc' = "model" /\ suPending # << >>

\* C20: when tool calls of one super-step suspend, the invocation returns one
\* list with one interrupt per tool call left without a result, all ids
\* distinct, and the script's resume_dict holds one entry per interrupt; the
\* super-step completes only in an invocation resumed with a resume_dict
\* that has a decision for the id of every interrupt stored for it
C20_AggregatedSuspensions ==
    [][/\ SupReturnsInterrupts =>
            /\ Len(suResult'.interrupt) = Cardinality(SupOpen)
            /\ Cardinality(InterruptIds(suResult'.interrupt))
                  = Len(suResult'.interrupt)
            /\ suPending' = suResult'.interrupt
       /\ SupWaveCompletes =>
            /\ suResume # None
            /\ InterruptIds(suPending) \subseteq DOMAIN suResume[1]
            /\ Cardinality(DOMAIN suResume[1]) >= Len(suPending)]_vars

\* two manage_email calls of one response suspended, the script resumed with
\* a decision for both ids, and the super-step completed
C20_Witness ==
    /\ suPc = "model"
    /\ suInvocations = 2
    /\ suRounds = 1
    /\ Cardinality(DOMAIN suResume[1]) = 2
    /\ Len(suMessages) = 4

-----------------------------------------------------------------------------
(* Properties of the summarizing chat bot (SpecBot) *)

\* the appended messages whose ids were never removed, in the order appended
NeverRemoved == SelectSeq(sbAppended, LAMBDA m : m.id \notin sbRemoved)

\* C21: whatever was appended before, between and after the removals, the
\* messages of the thread are the messages appended and never removed, in
\* the order they were appended: a message appended and then removed by its
\* id leaves the sequence as if it had never been appended
C21_RemovalRoundTrip == sbMessages = NeverRemoved

\* messages were removed by id and others appended afterwards
C21_Witness ==
    /\ sbRemoved # {}
    /\ Len(sbMessages) >= 4
    /\ \A k \in 1..Len(sbMessages) :
         \A id \in sbRemoved : sbMessages[k].id > id

-----------------------------------------------------------------------------
(* Properties of the tools of the SQL agent (SpecSql) *)

\* the tools step is about to run a call of execute_sql
SqlRunsExecuteSql ==
    /\ sqPc = "stream"
    /\ sqNode = "tools"
    /\ LastMessage(SqlState.messages).tool_calls[1].name = "execute_sql"

\* the messages of the thread after the step
SqlMessagesAfter == RestoredState(ThreadLog(sqLog', SqlThread)).messages

\* C23: a tools step that runs execute_sql never aborts the invocation,
\* whether the database call fails or not: no error reaches run_app, one
\* ToolMessage is added whose content is the rows or a string that starts
\* with "Error", and the agent step is scheduled next
C23_ToolFailureIsResult ==
    [][SqlRunsExecuteSql /\ sqlVars' # sqlVars =>
          /\ sqErrors' = sqErrors
          /\ sqPc' = "stream"
          /\ sqNode' = "agent"
          /\ Len(SqlMessagesAfter) = Len(SqlState.messages) + 1
          /\ LastMessage(SqlMessagesAfter).type = "tool"
          /\ \/ LastMessage(SqlMessagesAfter).content = <<"rows">>
             \/ Head(LastMessage(SqlMessagesAfter).content) = "Error"]_vars

\* the database call failed, the agent step ran again with the error string
\* in the history, and the invocation ended with no error raised to run_app
C23_Witness ==
    /\ sqPc = "input"
    /\ sqErrors = << >>
    /\ LET messages == SqlState.messages IN
         /\ Len(messages) >= 4
         /\ messages[Len(messages)].type = "ai"
         /\ messages[Len(messages) - 1].type = "tool"
         /\ Head(messages[Len(messages) - 1].content) = "Error"

\* a step of the running invocation completes in `node`
SqlStepOf(node) ==
    /\ sqPc = "stream"
    /\ sqNode = node
    /\ sqErrors' = sqErrors
    /\ sqLog' # sqLog

\* the invocation reaches END: the stream is exhausted and run_app reads the
\* next input, no exception raised
SqlRunEnds == sqPc = "stream" /\ sqPc' = "input" /\ sqErrors' = sqErrors

\* C30: after an agent step the tools step is next iff the message the agent
\* added has tool calls, and otherwise the run ends; after a tools step the
\* agent step is next; a run reaches END only from an agent step whose
\* message has no tool calls, never from the tools step
C30_AgentToolsLoop ==
    [][/\ SqlStepOf("agent") =>
            /\ LastMessage(SqlMessagesAfter).type = "ai"
            /\ sqNode' = "tools"
                  <=> LastMessage(SqlMessagesAfter).tool_calls # << >>
            /\ sqNode' # "tools" => sqNode' = "" /\ sqPc' = "input"
       /\ SqlStepOf("tools") => sqNode' = "agent" /\ sqPc' = "stream"
       /\ SqlRunEnds =>
            /\ sqNode = "agent"
            /\ LastMessage(SqlMessagesAfter).type = "ai"
            /\ LastMessage(SqlMessagesAfter).tool_calls = << >>]_vars

\* a run went agent, tools, agent and ended: human, call, result, answer
C30_Witness ==
    /\ sqPc = "input"
    /\ sqAsked = 1
    /\ sqToolSteps = 1
    /\ sqErrors = << >>
    /\ Len(SqlState.messages) = 4
    /\ SqlState.messages[2].tool_calls # << >>
    /\ SqlState.messages[3].type = "tool"
    /\ SqlState.messages[4].tool_calls = << >>

-----------------------------------------------------------------------------
(* Properties of the fields without a reducer (SpecOverwrite) *)

\* a node of the review graph completes its super-step
ReviewStepOf(node) ==
    /\ rvStep' = rvStep + 1
    /\ rvTrace' = Append(rvTrace, node)

\* C24: the greeter's update replaces `messages`: whatever the initial state
\* holds, the run ends with messages equal to the greeter's one-element
\* list.  In the review graph each step replaces the fields of its update
\* (approve and reject: status; edit: proposal_text) and the field the
\* update does not mention keeps its value.
C24_DefaultOverwrite ==
    [][/\ grPc = "start" /\ grPc' = "greeter" => grValues' = grInitial
       /\ grPc = "greeter" /\ grPc' = "done" =>
            /\ grValues'.messages = <<GreeterMessage>>
            /\ grResponse' = [kind |-> "final", values |-> grValues']
       /\ ReviewStepOf("review") => rvValues' = rvValues
       /\ ReviewStepOf("approve") =>
            /\ rvValues'.status = "approved"
            /\ rvValues'.proposal_text = rvValues.proposal_text
       /\ ReviewStepOf("reject") =>
            /\ rvValues'.status = "rejected"
            /\ rvValues'.proposal_text = rvValues.proposal_text
       /\ ReviewStepOf("edit") =>
            /\ rvValues'.proposal_text = rvResume
            /\ rvValues'.status = rvValues.status]_vars

\* the greeter ran on an initial state of two entries, which are gone
C24_Witness ==
    /\ grPc = "done"
    /\ Len(grInitial.messages) = 2
    /\ grResponse.values.messages = <<GreeterMessage>>

-----------------------------------------------------------------------------
(* Properties of the routes of the review graph (SpecReview) *)

\* the node scheduled by rvNext runs in the invocation, with or without a
\* resume value
ReviewRuns(node) == rvPc = "running" /\ rvNext = node /\ rvTrace' # rvTrace

\* the invocation returns the request of `node` to handle_interrupts
ReviewSuspendsIn(node, request) ==
    /\ rvPc' = "returned_to_loop"
    /\ rvNext' = node
    /\ HasInterrupt(rvResponse')
    /\ Len(rvResponse'.interrupt) = 1
    /\ rvResponse'.interrupt[1].value = request
    /\ rvValues' = rvValues

\* C25: review_node resumed with "edit" schedules edit_node, which suspends
\* asking "Edit the proposal text"; edit_node resumed with a text T sets
\* proposal_text to T, keeps status, and schedules review_node with no resume
\* value left, and review_node without a resume value suspends with the
\* current proposal_text, that is T, as the details of its request
C25_EditLoop ==
    [][/\ ReviewRuns("review") /\ rvResume = "edit" =>
            /\ rvNext' = "edit"
            /\ rvPc' = "running"
            /\ rvResume' = NoResume
            /\ rvValues' = rvValues
       /\ ReviewRuns("edit") /\ rvResume = NoResume =>
            ReviewSuspendsIn("edit",
                             [question |-> "Edit the proposal text",
                              details  |-> rvValues.proposal_text])
       /\ ReviewRuns("edit") /\ rvResume # NoResume =>
            /\ rvValues'.proposal_text = rvResume
            /\ rvValues'.status = rvValues.status
            /\ rvNext' = "review"
            /\ rvPc' = "running"
            /\ rvResume' = NoResume
       /\ ReviewRuns("review") /\ rvResume = NoResume =>
            ReviewSuspendsIn("review",
                             [question |-> "What would you like to do?",
                              details  |-> rvValues.proposal_text,
                              options  |-> <<"approve", "reject", "edit">>])]_vars

\* after "edit" and the new text "draft v3" the review step is suspended
\* again with "draft v3" as the details
C25_Witness ==
    /\ rvPc = "returned_to_loop"
    /\ rvInputs = <<"edit", "draft v3">>
    /\ rvTrace = <<"review", "review", "edit", "edit", "review">>
    /\ HasInterrupt(rvResponse)
    /\ rvResponse.interrupt[1].value.details = "draft v3"
    /\ rvValues = [proposal_text |-> "draft v3", status |-> "pending"]

\* the last input handle_interrupts has passed to the graph
LastDecision == rvInputs[Len(rvInputs)]

\* what C26 says of one state
ReviewEndsByDecision ==
    IF rvNext = END
    THEN /\ rvTrace # << >>
         /\ rvTrace[Len(rvTrace)] \in {"approve", "reject"}
         /\ rvValues.status \in {"approved", "rejected"}
         /\ rvValues.status = "approved" <=> LastDecision = "approve"
         /\ rvValues.status = "rejected" <=> LastDecision = "reject"
    ELSE rvValues.status = "pending"

\* C26: the run is at END only after approve_node or reject_node, status is
\* "pending" in every state before, the final status is "approved" iff the
\* last decision was "approve" and "rejected" iff it was "reject", and only a
\* step of edit_node changes proposal_text
C26_EndOnlyByApproveOrReject ==
    [][/\ ReviewEndsByDecision
       /\ ReviewEndsByDecision'
       /\ rvValues'.proposal_text # rvValues.proposal_text =>
             ReviewRuns("edit") /\ rvResume # NoResume]_vars

\* a proposal edited once and then rejected
C26_Witness ==
    /\ rvPc = "done"
    /\ rvNext = END
    /\ rvInputs = <<"edit", "draft v3", "reject">>
    /\ rvValues = [proposal_text |-> "draft v3", status |-> "rejected"]

\* C27: whatever value review_node is resumed with, the step completes and
\* schedules a node: approve for exactly "approve", reject for exactly
\* "reject", edit for every other value; the run neither fails nor ends in
\* review_node
C27_OtherInputsRouteToEdit ==
    [][ReviewRuns("review") /\ rvResume # NoResume =>
          /\ rvPc' = "running"
          /\ rvStep' = rvStep + 1
          /\ rvNext' # END
          /\ rvNext' = "approve" <=> rvResume = "approve"
          /\ rvNext' = "reject" <=> rvResume = "reject"
          /\ rvNext' = "edit" <=> rvResume \notin {"approve", "reject"}]_vars

\* "Approve" and then "maybe" were entered at the review prompt: both times
\* the edit step ran
C27_Witness ==
    /\ rvInputs = <<"Approve", "draft v2", "maybe">>
    /\ rvNext = "edit"
    /\ rvResumed["review"] = 2
    /\ rvValues.status = "pending"

-----------------------------------------------------------------------------
(* Properties of the routers of the email graph (SpecEmail) *)

\* the super-step of write_response ends and its router is evaluated
WriteResponseWaveEnds ==
    /\ emThread # 0
    /\ DOMAIN emWrites = {"write_response"}
    /\ emTasks = {}
    /\ emThreads'[emThread].step = emThreads[emThread].step + 1

\* the super-step that runs send_reply ends
SendReplyWaveEnds ==
    /\ emThread # 0
    /\ DOMAIN emWrites = {"send_reply"}
    /\ emTasks = {}
    /\ emThreads'[emThread].step = emThreads[emThread].step + 1

-----------------------------------------------------------------------------
(* Properties of main: the batch, then the review queue (SpecEmailBatch) *)

\* the emails process_email_batch has finished with
Collected == {t \in DOMAIN emThreads : t < emIndex}

\* C29: an email is in needs_approval iff its run suspended, at most once,
\* under the thread id its run was started with, and no two items share a
\* thread id; a thread is resumed only if queued and at most once; after
\* process_review_queue has returned every queued thread has been resumed
\* exactly once, and no thread of the batch is suspended or has a step left:
\* each run ended after send_reply, or at END without a reply when the
\* decision was not "approve"
C29_BatchThenReview ==
    /\ \A t \in DOMAIN emThreads :
         /\ Cardinality(QueueItems(t)) <= 1
         /\ Len(emDecisions[t]) <= Cardinality(QueueItems(t))
         /\ t \in Collected =>
              (QueueItems(t) # {} <=> emRuns[t]["human_review"] >= 1)
         /\ \A k \in QueueItems(t) :
              /\ needs_approval[k].thread_id = NewThreadId(needs_approval[k].email_id)
              /\ HasInterrupt(needs_approval[k].result)
    /\ \A j, k \in 1..Len(needs_approval) :
         j # k => needs_approval[j].thread_id # needs_approval[k].thread_id
    /\ emPc = "finished" =>
         /\ DOMAIN emThreads = 1..emBatch
         /\ \A t \in DOMAIN emThreads :
              /\ Len(emDecisions[t]) = Cardinality(QueueItems(t))
              /\ emRuns[t]["human_review"] = 2 * Cardinality(QueueItems(t))
              /\ emThreads[t].interrupts = << >>
              /\ emThreads[t].next = {}
              /\ IF emDecisions[t] = << >> \/ emDecisions[t] = <<"approve">>
                 THEN emRuns[t]["send_reply"] = 1
                 ELSE emRuns[t]["send_reply"] = 0

\* both emails of the batch were queued, the first approved and sent, the
\* second rejected
C29_Witness ==
    /\ emPc = "finished"
    /\ Len(needs_approval) = 2
    /\ emDecisions[1] = <<"approve">>
    /\ emDecisions[2] = <<"reject">>
    /\ emRuns[1]["send_reply"] = 1
    /\ emRuns[2]["send_reply"] = 0

-----------------------------------------------------------------------------
(* Properties of the manual summarization (SpecBot) *)

\* the last n entries of a sequence
LastN(q, n) == IF Len(q) <= n THEN q ELSE SubSeq(q, Len(q) - n + 1, Len(q))

\* the messages of the state that are no system messages
NonSystem(messages) == SelectSeq(messages, LAMBDA m : m.type # "system")

\* C32: an invocation starts with the summarize step iff the thread, the new
\* input included, holds more than 10 messages, and with the model step
\* otherwise; the summarize step leaves of the non-system messages exactly
\* the 2 most recent, puts a new value in `summary`, and the model step is
\* next; the model step ends the invocation, so an invocation runs
\* call_model alone or summarize and then call_model
C32_ManualSummarization ==
    [][/\ sbPc = "input" /\ sbPc' # "exited" =>
            /\ Len(sbMessages') = Len(sbMessages) + 1
            /\ sbPc' = IF Len(sbMessages') > 10 THEN "summarize"
                       ELSE "call_model"
            /\ sbSummary' = sbSummary
       /\ sbPc = "summarize" =>
            /\ Len(sbMessages) > 10
            /\ NonSystem(sbMessages') = LastN(NonSystem(sbMessages), 2)
            /\ Len(sbMessages') = 2
            /\ sbSummary' # sbSummary
            /\ sbSummary' # << >>
            /\ sbPc' = "call_model"
       /\ sbPc = "call_model" =>
            /\ sbPc' = "input"
            /\ sbSummary' = sbSummary
            /\ sbTrace' \in {<<"call_model">>, <<"summarize", "call_model">>}]_vars

\* summarize ran on the sixth input (11 messages, 9 removed) and call_model
\* after it; the tenth input brought the thread to exactly 10 messages and
\* call_model ran directly
C32_Witness ==
    /\ sbPc = "input"
    /\ sbTurns = 10
    /\ sbTrace = <<"call_model">>
    /\ Len(sbMessages) = 11
    /\ sbSummary # << >>
    /\ Cardinality(sbRemoved) = 9

-----------------------------------------------------------------------------
(* Properties of the SQL agent's system prompt (SpecSql) *)

\* the system messages of a list
SystemOnly(messages) == SelectSeq(messages, LAMBDA m : m.type = "system")

\* no checkpoint of the checkpointer holds a system message
NoSystemMessageStored ==
    \A t \in DOMAIN sqLog : \A k \in 1..Len(sqLog[t]) :
       SystemOnly(sqLog[t][k].values.messages) = << >>

\* the agent node runs, to its end or to an exception of the model call
SqlAgentRuns == sqPc = "stream" /\ sqNode = "agent" /\ sqlVars' # sqlVars

\* C31: no checkpoint of the SQL agent ever holds a system message; on every
\* agent step the model is sent exactly one system message, the first of the
\* list, followed by the non-system messages of the stored history in their
\* order; a completed agent step adds to the stored messages one message,
\* the model's response, and nothing else
C31_PromptNeverStored ==
    /\ []NoSystemMessageStored
    /\ [][/\ SqlAgentRuns =>
               /\ sqSent' # << >>
               /\ sqSent'[1].type = "system"
               /\ Len(SystemOnly(sqSent')) = 1
               /\ Tail(sqSent') = NonSystem(SqlState.messages)
          /\ SqlStepOf("agent") =>
               /\ Len(SqlMessagesAfter) = Len(SqlState.messages) + 1
               /\ SubSeq(SqlMessagesAfter, 1, Len(SqlState.messages))
                     = SqlState.messages
               /\ LastMessage(SqlMessagesAfter).type = "ai"
          /\ ~SqlAgentRuns => sqSent' = sqSent]_vars

\* the second question has been answered after a tools step: the model was
\* sent the prompt and a history of five or more messages, and the thread
\* holds that history and the answer, without the prompt
C31_Witness ==
    /\ sqPc = "input"
    /\ sqAsked = 2
    /\ sqErrors = << >>
    /\ Len(sqSent) >= 6
    /\ sqSent[1] = system_msg
    /\ Tail(sqSent) = SubSeq(SqlState.messages, 1, Len(SqlState.messages) - 1)
    /\ Len(sqLog[SqlThread]) >= 6
    /\ NoSystemMessageStored

====
